---- MODULE Spec2Model ----
(***************************************************************************)
(* A model of the wasm-xlsxwriter facade (rust/src/wrapper): Worksheet     *)
(* handles (an Arc<Mutex<Workbook>> plus a zero-based index), the          *)
(* operations of worksheet.rs, and Chart handles of chart/mod.rs.          *)
(*                                                                         *)
(* Every exported method is an operator, named as in the source, that      *)
(* yields the outcome of one call: the new Document store, the new state   *)
(* of the Document mutex, the result handed to the caller and the trace of *)
(* the locking/classification/engine events the handler went through, in   *)
(* program order.  One action of Next is one whole call issued by the      *)
(* host.                                                                   *)
(*                                                                         *)
(* The engine (rust_xlsxwriter, `xlsx::` in the source) is called through  *)
(* its public operations; the xlsx_* operators give each call's effect on  *)
(* the sheet it is applied to and its Result.                              *)
(***************************************************************************)
EXTENDS Integers, Sequences, FiniteSets, TLC

\* ------------------------------------------------------------------ bounds
MaxOps == 2        \* calls the host issues in one behaviour of Spec
NumSheets == 2     \* sheets of the Document
MaxDocs == 2       \* slots of the Document store (only slot 1 is ever used)
MaxWrites == 4     \* calls the host issues in one behaviour of SpecOrder
MaxChartOps == 4   \* calls the host issues in one behaviour of SpecChart
MaxCharts == 2     \* slots of the Chart store
MaxChartHandles == 3  \* Chart handles the host keeps
MaxAttachOps == 5  \* calls the host issues in one behaviour of SpecAttach
MaxSeries == 2     \* slots of the ChartSeries store
MaxCtorOps == 2    \* calls the host issues in one behaviour of SpecCtor
MaxNameOps == 3    \* calls the host issues in one behaviour of SpecName
MaxValueOps == 2   \* calls the host issues in one behaviour of SpecValue
MaxRuleOps == 5    \* calls the host issues in one behaviour of SpecDataBar
MaxRules == 1      \* conditional-format rule objects the host creates
MaxMutatorOps == 3 \* calls the host issues in one behaviour of SpecMutators
MaxStartOps == 4   \* calls the host issues in one behaviour of SpecStart
MaxFilterOps == 3  \* calls the host issues in one behaviour of SpecFilter
MaxThreadOps == 3  \* calls the two callers issue in one behaviour of SpecThreads
MaxRaceOps == 3    \* calls the two callers issue in one behaviour of SpecRace
MaxCopyOps == 4    \* calls the host issues in one behaviour of SpecCopy
MaxAliasOps == 3   \* calls the host issues in one behaviour of SpecAlias
MaxLockOps == 2    \* calls the host issues in one behaviour of SpecLocks
MaxDynamicOps == 2 \* calls the host issues in one behaviour of SpecDynamic

\* ------------------------------------------------------- engine constants
ROW_MAX == 1048576
COL_MAX == 16384
MAX_STRING_LEN == 32767
MAX_SHEETNAME_LEN == 31

VARIABLES
  docs,     \* Document store: slot -> xlsx::Workbook value, or NoDoc
  mutex,    \* slot -> state of the Mutex around that Workbook
  handles,  \* the Worksheet handles the host holds, a sequence of structs
  res,      \* the record of the last call: receiver, outcome, event trace
  prev,     \* the Document store immediately before the last call
  left,     \* number of calls the host still issues
  writes,   \* the write_number calls issued so far, in issue order
  charts,   \* Chart store: slot -> xlsx::Chart value, or NoChart
  cmutex,   \* slot -> state of the Mutex around that Chart
  chandles, \* the Chart handles the host holds, a sequence of structs
  cres,     \* the record of the last Chart or ChartSeries call
  series,   \* ChartSeries store: slot -> xlsx::ChartSeries value, or NoSeries
  cformats, \* the conditional-format rule objects the host holds, by slot
  cfres,    \* the record of the last call on a rule object
  wasm,     \* the module instance: instantiated or not, the panic hook
  threads   \* concurrent callers: each one's call in progress and locks held

wvars == <<docs, mutex, handles, res, prev, writes>>
cvars == <<charts, cmutex, chandles, cres>>
vars ==
  <<docs, mutex, handles, res, prev, left, writes, charts, cmutex, chandles, cres, series,
    cformats, cfres, wasm, threads>>

NoDoc == [sheets |-> <<>>, live |-> FALSE]
DocIds == 1..MaxDocs

\* ------------------------------------------------------------------ values
\* A stored cell: a tag, a numeric payload, a text payload, a format name.
Cell(t, n, s, f) == [t |-> t, n |-> n, s |-> s, f |-> f]

\* A sheet name is a sequence of characters.
Chars(n, c) == [i \in 1..n |-> c]
SheetN(i) == <<"S", "h", "e", "e", "t">> \o <<ToString(i)>>

NewSheet(i) ==
  [name   |-> SheetN(i),
   cells  |-> <<>>,          \* function (row, col) -> Cell, finite domain
   colw   |-> <<>>,          \* function col -> width
   merged_cells  |-> <<>>,   \* function (row, col) -> index of its merged range
   merged_ranges |-> <<>>,   \* <<first_row, first_col, last_row, last_col>>, in order
   charts |-> <<>>,          \* function (row, col) -> [chart, x_offset, y_offset]
   tables |-> {},            \* [range, table]
   header |-> "",            \* page header text
   autofilter |-> <<>>,      \* the autofilter area, <<>> when none is set
   cfs    |-> {}]            \* conditional formats: [range, rule]
NoSheet == NewSheet(0)

NewWorkbook == [sheets |-> [i \in 1..NumSheets |-> NewSheet(i)], live |-> TRUE]

\* pub struct Worksheet { workbook, index }
Worksheet(workbook, index) == [workbook |-> workbook, index |-> index]
NoHandle == Worksheet(0, 0)

\* variant: a clone that copies the Document into the next slot of the store
CloneDeep(store, self) ==
  [docs |-> [store EXCEPT ![(self.workbook % MaxDocs) + 1] = store[self.workbook]],
   handle |-> Worksheet((self.workbook % MaxDocs) + 1, self.index)]

\* variant: a clone that always names the first sheet
CloneFirst(store, self) == [docs |-> store, handle |-> Worksheet(self.workbook, 0)]

\* variant: a clone that names the following sheet
CloneNext(store, self) ==
  [docs |-> store, handle |-> Worksheet(self.workbook, (self.index + 1) % NumSheets)]

\* impl Clone for Worksheet: Arc::clone of the workbook (the Document store
\* is not touched, the new handle names the same slot) and the same index.
Clone(store, self) ==
  [docs |-> store, handle |-> Worksheet(self.workbook, self.index)]

\* ------------------------------------------------------- handler plumbing
\* What a handler leaves behind: the Document store, the mutexes, and what
\* the caller gets (status "ok" | "err" | "panic"; err the error kind; ret
\* the returned handle; val the returned string), plus the event trace.
Out(d, m, status, err, ret, val, trace) ==
  [docs |-> d, mutex |-> m, status |-> status, err |-> err, ret |-> ret,
   val |-> val, trace |-> trace, eng |-> ""]

\* book.worksheet_from_index(self.index): Ok(&mut sheet) when the index is
\* below the number of sheets, Err(UnknownWorksheetNameOrIndex) otherwise.
Resolves(self) == self.index < Len(docs[self.workbook].sheets)
Sheet(self) == docs[self.workbook].sheets[self.index + 1]

\* let mut book = self.workbook.lock().unwrap();
\* A mutex whose guard was lost in a panic is poisoned (or, in a build that
\* aborts on panic, still marked locked): lock().unwrap() panics on it.
CanLock(self) == mutex[self.workbook] = "unlocked"
LockPanic(self) == Out(docs, mutex, "panic", "", NoHandle, <<>>, <<"lock_failed">>)

\* A panic while the guard `book` is alive: the handler does not return and
\* the mutex is left unusable.  The sheet keeps what the engine did so far.
Panic(self, sheet, trace) ==
  Out(IF Resolves(self)
        THEN [docs EXCEPT ![self.workbook].sheets[self.index + 1] = sheet]
        ELSE docs,
      [mutex EXCEPT ![self.workbook] = "poisoned"],
      "panic", "", NoHandle, <<>>, trace \o <<"panic">>)

\* variant: return Err(e) with the guard leaked: the mutex stays locked
FailKeepsLock(self, sheet, e, trace) ==
  Out(IF Resolves(self)
        THEN [docs EXCEPT ![self.workbook].sheets[self.index + 1] = sheet]
        ELSE docs,
      [mutex EXCEPT ![self.workbook] = "locked"],
      "err", e, NoHandle, <<>>, trace)

\* return Err(e) from a handler: the guard is dropped on the way out.
Fail(self, sheet, e, trace) ==
  Out(IF Resolves(self)
        THEN [docs EXCEPT ![self.workbook].sheets[self.index + 1] = sheet]
        ELSE docs,
      [mutex EXCEPT ![self.workbook] = "unlocked"],
      "err", e, NoHandle, <<>>, trace \o <<"unlock">>)

\* Ok(self.clone()) / self.clone(): the guard is dropped on the way out.
Done(self, sheet, trace) ==
  LET c == Clone([docs EXCEPT ![self.workbook].sheets[self.index + 1] = sheet], self) IN
  Out(c.docs, [mutex EXCEPT ![self.workbook] = "unlocked"],
      "ok", "", c.handle, <<>>, trace \o <<"unlock">>)

\* `let _ = sheet.op(..)?; Ok(self.clone())` applied to an engine result.
\* eng records what the engine call returned ("" for Ok).
Try(self, e, trace) ==
  [(IF e.err # "" THEN Fail(self, e.sheet, e.err, trace)
    ELSE Done(self, e.sheet, trace)) EXCEPT !.eng = e.err]

\* `let _ = sheet.op(..); Ok(self.clone())`: the engine's Result is dropped.
Discard(self, e, trace) ==
  [Done(self, e.sheet, trace) EXCEPT !.eng = e.err]

\* variant: the sub-object guard taken before the Document guard
SubFirst(sub) == <<"lock_" \o sub, "lock", "resolve", "engine", "unlock_" \o sub>>

\* the events up to the engine call of a handler with no sub-object
Plain == <<"lock", "resolve", "engine">>
\* the same with one `&format.lock()` (or another sub-object guard) taken
\* for the duration of the engine call
WithSub(sub) == <<"lock", "resolve", "lock_" \o sub, "engine", "unlock_" \o sub>>

\* The host issues a call through the handle in its slot k and the handler
\* runs to its end with outcome o.  The host goes on with the handle it held
\* or puts the handle the call returned in its place (sheet = sheet.op(..)).
Call(op, k, args, o) ==
  /\ left > 0
  /\ cres.status # "deadlock"
  /\ docs' = o.docs
  /\ mutex' = o.mutex
  /\ res' = [op |-> op, via |-> k, recv |-> handles[k], args |-> args,
             status |-> o.status, err |-> o.err, ret |-> o.ret, val |-> o.val,
             trace |-> o.trace, eng |-> o.eng, at |-> left]
  /\ prev' = docs
  /\ left' = left - 1
  /\ \/ handles' = handles
     \/ o.status = "ok" /\ o.ret # NoHandle /\ handles' = [handles EXCEPT ![k] = o.ret]
  /\ writes' = IF op = "write_number"
                 THEN Append(writes, [recv |-> handles[k], args |-> args, status |-> o.status])
                 ELSE writes
  /\ UNCHANGED <<cvars, series, cformats, cfres, wasm, threads>>

\* ------------------------------------------------------------------ engine
EOk(sheet) == [sheet |-> sheet, err |-> ""]
EErr(sheet, e) == [sheet |-> sheet, err |-> e]

InGrid(row, col) == row < ROW_MAX /\ col < COL_MAX

\* variant: a cell table in which the first value written to a cell stays
PutIfAbsent(sheet, row, col, cell) ==
  [sheet EXCEPT !.cells =
     [p \in DOMAIN sheet.cells \cup {<<row, col>>} |->
        IF p \in DOMAIN sheet.cells THEN sheet.cells[p] ELSE cell]]

\* store one cell (the engine's insert into its cell table)
Put(sheet, row, col, cell) ==
  [sheet EXCEPT !.cells =
     [p \in DOMAIN sheet.cells \cup {<<row, col>>} |->
        IF p = <<row, col>> THEN cell ELSE sheet.cells[p]]]

xlsx_write_number(sheet, row, col, number, f) ==
  IF ~InGrid(row, col) THEN EErr(sheet, "RowColumnLimitError")
  ELSE EOk(Put(sheet, row, col, Cell("Number", number, "", f)))

xlsx_write_string(sheet, row, col, string, f) ==
  IF ~InGrid(row, col) THEN EErr(sheet, "RowColumnLimitError")
  ELSE IF Len(string) > MAX_STRING_LEN THEN EErr(sheet, "MaxStringLengthExceeded")
  ELSE EOk(Put(sheet, row, col, Cell("String", 0, string, f)))

xlsx_write_datetime(sheet, row, col, dt, f) ==
  IF ~InGrid(row, col) THEN EErr(sheet, "RowColumnLimitError")
  ELSE EOk(Put(sheet, row, col, Cell("DateTime", dt, "", f)))

xlsx_write_blank(sheet, row, col, f) ==
  IF ~InGrid(row, col) THEN EErr(sheet, "RowColumnLimitError")
  ELSE EOk(Put(sheet, row, col, Cell("Blank", 0, "", f)))

\* sheet.write(row, col, data) with data: ExcelData dispatches on the variant.
xlsx_write(sheet, row, col, data) ==
  CASE data.t = "Number" -> xlsx_write_number(sheet, row, col, data.n, "")
    [] data.t = "String" -> xlsx_write_string(sheet, row, col, data.s, "")
    [] data.t = "DateTime" -> xlsx_write_datetime(sheet, row, col, data.n, "")

\* sheet.write_with_format(row, col, data, format): the same dispatch, the
\* cell carries the format.
xlsx_write_with_format(sheet, row, col, data, f) ==
  CASE data.t = "Number" -> xlsx_write_number(sheet, row, col, data.n, f)
    [] data.t = "String" -> xlsx_write_string(sheet, row, col, data.s, f)
    [] data.t = "DateTime" -> xlsx_write_datetime(sheet, row, col, data.n, f)

\* write_row: `for item in data { self.write(row, col, item)?; col += 1; }`
RECURSIVE xlsx_write_row(_, _, _, _)
xlsx_write_row(sheet, row, col, values) ==
  IF values = <<>> THEN EOk(sheet)
  ELSE LET e == xlsx_write(sheet, row, col, Head(values)) IN
       IF e.err # "" THEN e
       ELSE xlsx_write_row(e.sheet, row, col + 1, Tail(values))

\* write_column: `for item in data { self.write(row, col, item)?; row += 1; }`
RECURSIVE xlsx_write_column(_, _, _, _)
xlsx_write_column(sheet, row, col, values) ==
  IF values = <<>> THEN EOk(sheet)
  ELSE LET e == xlsx_write(sheet, row, col, Head(values)) IN
       IF e.err # "" THEN e
       ELSE xlsx_write_column(e.sheet, row + 1, col, Tail(values))

\* write_row_matrix: `for item in data { self.write_row(row, col, item)?; row += 1; }`
RECURSIVE xlsx_write_row_matrix(_, _, _, _)
xlsx_write_row_matrix(sheet, row, col, data) ==
  IF data = <<>> THEN EOk(sheet)
  ELSE LET e == xlsx_write_row(sheet, row, col, Head(data)) IN
       IF e.err # "" THEN e
       ELSE xlsx_write_row_matrix(e.sheet, row + 1, col, Tail(data))

\* write_column_matrix: `for item in data { self.write_column(row, col, item)?; col += 1; }`
RECURSIVE xlsx_write_column_matrix(_, _, _, _)
xlsx_write_column_matrix(sheet, row, col, data) ==
  IF data = <<>> THEN EOk(sheet)
  ELSE LET e == xlsx_write_column(sheet, row, col, Head(data)) IN
       IF e.err # "" THEN e
       ELSE xlsx_write_column_matrix(e.sheet, row, col + 1, Tail(data))

xlsx_set_column_width(sheet, col, width) ==
  IF col >= COL_MAX THEN EErr(sheet, "RowColumnLimitError")
  ELSE EOk([sheet EXCEPT !.colw =
              [c \in DOMAIN sheet.colw \cup {col} |->
                 IF c = col THEN width ELSE sheet.colw[c]]])

\* set_column_range_width: the order check, then
\* `for col_num in first_col..=last_col { self.set_column_width(col_num, width)?; }`
RECURSIVE xlsx_set_column_widths(_, _, _, _)
xlsx_set_column_widths(sheet, col, last_col, width) ==
  IF col > last_col THEN EOk(sheet)
  ELSE LET e == xlsx_set_column_width(sheet, col, width) IN
       IF e.err # "" THEN e
       ELSE xlsx_set_column_widths(e.sheet, col + 1, last_col, width)

xlsx_set_column_range_width(sheet, first_col, last_col, width) ==
  IF first_col > last_col THEN EErr(sheet, "RowColumnOrderError")
  ELSE xlsx_set_column_widths(sheet, first_col, last_col, width)

\* the cells of a range, in the engine's row-major order
RangeSeq(fr, fc, lr, lc) ==
  LET w == lc - fc + 1 IN
  [i \in 1..((lr - fr + 1) * w) |-> <<fr + ((i - 1) \div w), fc + ((i - 1) % w)>>]

\* the blanks merge_range pads the range with, after its first cell
RECURSIVE PadBlanks(_, _, _)
PadBlanks(sheet, cells, f) ==
  IF cells = <<>> THEN EOk(sheet)
  ELSE LET e == xlsx_write_blank(sheet, Head(cells)[1], Head(cells)[2], f) IN
       IF e.err # "" THEN e ELSE PadBlanks(e.sheet, Tail(cells), f)

\* the overlap check of merge_range: every cell of the range is looked up in
\* merged_cells; a hit returns MergeRangeOverlaps, a miss inserts the cell.
RECURSIVE MarkMerged(_, _, _)
MarkMerged(sheet, cells, new_index) ==
  IF cells = <<>> THEN EOk(sheet)
  ELSE IF Head(cells) \in DOMAIN sheet.merged_cells
    THEN EErr(sheet, "MergeRangeOverlaps")
  ELSE MarkMerged(
         [sheet EXCEPT !.merged_cells =
            [p \in DOMAIN sheet.merged_cells \cup {Head(cells)} |->
               IF p = Head(cells) THEN new_index ELSE sheet.merged_cells[p]]],
         Tail(cells), new_index)

\* merge_range: limit, order and single-cell checks; the string in the first
\* cell and blanks in the rest; the overlap check; then the range is stored.
xlsx_merge_range(sheet, fr, fc, lr, lc, string, f) ==
  IF ~InGrid(fr, fc) \/ ~InGrid(lr, lc) THEN EErr(sheet, "RowColumnLimitError")
  ELSE IF fr > lr \/ fc > lc THEN EErr(sheet, "RowColumnOrderError")
  ELSE IF fr = lr /\ fc = lc THEN EErr(sheet, "MergeRangeSingleCell")
  ELSE LET w == xlsx_write_string(sheet, fr, fc, string, f) IN
       IF w.err # "" THEN w
       ELSE LET b == PadBlanks(w.sheet, Tail(RangeSeq(fr, fc, lr, lc)), f) IN
            IF b.err # "" THEN b
            ELSE LET m == MarkMerged(b.sheet, RangeSeq(fr, fc, lr, lc),
                                     Len(sheet.merged_ranges)) IN
                 IF m.err # "" THEN m
                 ELSE EOk([m.sheet EXCEPT !.merged_ranges = Append(@, <<fr, fc, lr, lc>>)])

\* set_range_format_with_border: the limit and order checks, then every cell
\* of the range carries the format (a blank cell is made where there is
\* none) and the cells on the rim of the range carry the border as well.
xlsx_set_range_format_with_border(sheet, fr, fc, lr, lc, f, bf) ==
  IF ~InGrid(fr, fc) \/ ~InGrid(lr, lc) THEN EErr(sheet, "RowColumnLimitError")
  ELSE IF fr > lr \/ fc > lc THEN EErr(sheet, "RowColumnOrderError")
  ELSE LET R == (fr..lr) \X (fc..lc)
           old(p) == IF p \in DOMAIN sheet.cells THEN sheet.cells[p]
                     ELSE Cell("Blank", 0, "", "")
           fmt(p) == IF p[1] \in {fr, lr} \/ p[2] \in {fc, lc} THEN f \o "+" \o bf ELSE f
       IN EOk([sheet EXCEPT !.cells =
                 [p \in DOMAIN sheet.cells \cup R |->
                    IF p \in R THEN [old(p) EXCEPT !.f = fmt(p)] ELSE sheet.cells[p]]])

\* write_dynamic_array_formula_with_format: the limit and order checks, the
\* formula with its range in the first cell, formatted zeros in the rest.
xlsx_write_dynamic_array_formula_with_format(sheet, fr, fc, lr, lc, formula, f) ==
  IF ~InGrid(fr, fc) \/ ~InGrid(lr, lc) THEN EErr(sheet, "RowColumnLimitError")
  ELSE IF fr > lr \/ fc > lc THEN EErr(sheet, "RowColumnOrderError")
  ELSE LET R == (fr..lr) \X (fc..lc) IN
       EOk([sheet EXCEPT !.cells =
              [p \in DOMAIN sheet.cells \cup R |->
                 IF p = <<fr, fc>>
                   THEN [Cell("DynamicArrayFormula", 0, formula, f) EXCEPT !.n = (lr * COL_MAX) + lc]
                 ELSE IF p \in R THEN Cell("Number", 0, "", f)
                 ELSE sheet.cells[p]]])

\* write_dynamic_array_formula: the same with no format
xlsx_write_dynamic_array_formula(sheet, fr, fc, lr, lc, formula) ==
  xlsx_write_dynamic_array_formula_with_format(sheet, fr, fc, lr, lc, formula, "")

\* add_table: the limit and order checks, then the table is stored.
xlsx_add_table(sheet, fr, fc, lr, lc, table) ==
  IF ~InGrid(fr, fc) \/ ~InGrid(lr, lc) THEN EErr(sheet, "RowColumnLimitError")
  ELSE IF fr > lr \/ fc > lc THEN EErr(sheet, "RowColumnOrderError")
  ELSE EOk([sheet EXCEPT !.tables = @ \cup {[range |-> <<fr, fc, lr, lc>>, table |-> table]}])

\* add_conditional_format: the limit and order checks, then the rule is stored.
xlsx_add_conditional_format(sheet, fr, fc, lr, lc, rule) ==
  IF ~InGrid(fr, fc) \/ ~InGrid(lr, lc) THEN EErr(sheet, "RowColumnLimitError")
  ELSE IF fr > lr \/ fc > lc THEN EErr(sheet, "RowColumnOrderError")
  ELSE EOk([sheet EXCEPT !.cfs = @ \cup {[range |-> <<fr, fc, lr, lc>>, rule |-> rule]}])

\* write_url_with_options: the limit check, then a Url cell with the given
\* format, or with the engine's hyperlink format when none is given.  The
\* cell shows the text, or the link when the text is empty; the tip is not
\* part of the cell.
xlsx_write_url_with_options(sheet, row, col, link, text, tip, f) ==
  IF ~InGrid(row, col) THEN EErr(sheet, "RowColumnLimitError")
  ELSE EOk(Put(sheet, row, col,
               Cell("Url", 0, IF text = "" THEN link ELSE text,
                    IF f = "" THEN "hyperlink" ELSE f)))

\* autofilter: the limit and order checks, then the area is stored.
xlsx_autofilter(sheet, fr, fc, lr, lc) ==
  IF ~InGrid(fr, fc) \/ ~InGrid(lr, lc) THEN EErr(sheet, "RowColumnLimitError")
  ELSE IF fr > lr \/ fc > lc THEN EErr(sheet, "RowColumnOrderError")
  ELSE EOk([sheet EXCEPT !.autofilter = <<fr, fc, lr, lc>>])

InvalidNameChars == {"[", "]", ":", "*", "?", "/", "\\"}

\* variant: a name check that lets one more character through
SetNameLoose(sheet, name) ==
  IF Len(name) = 0 THEN EErr(sheet, "SheetnameCannotBeBlank")
  ELSE IF Len(name) > MAX_SHEETNAME_LEN + 1 THEN EErr(sheet, "SheetnameLengthExceeded")
  ELSE EOk([sheet EXCEPT !.name = name])

\* sheet.set_name(name): the name rules in the order the engine applies them
xlsx_set_name(sheet, name) ==
  IF Len(name) = 0 THEN EErr(sheet, "SheetnameCannotBeBlank")
  ELSE IF Len(name) > MAX_SHEETNAME_LEN THEN EErr(sheet, "SheetnameLengthExceeded")
  ELSE IF \E i \in 1..Len(name) : name[i] \in InvalidNameChars
    THEN EErr(sheet, "SheetnameContainsInvalidCharacter")
  ELSE IF name[1] = "'" \/ name[Len(name)] = "'"
    THEN EErr(sheet, "SheetnameStartsOrEndsWithApostrophe")
  ELSE EOk([sheet EXCEPT !.name = name])

\* ---------------------------------------------------- Worksheet handlers
\* pub fn name(&self) -> String
name(self) ==
  IF ~CanLock(self) THEN LockPanic(self)
  ELSE IF ~Resolves(self) THEN Panic(self, NoSheet, <<"lock", "resolve">>)
  ELSE Out(docs, [mutex EXCEPT ![self.workbook] = "unlocked"], "ok", "",
           NoHandle, Sheet(self).name, <<"lock", "resolve", "engine", "unlock">>)

\* pub fn set_name(&self, name: &str) -> WasmResult<Worksheet>
set_name(self, n) ==
  IF ~CanLock(self) THEN LockPanic(self)
  ELSE IF ~Resolves(self) THEN Panic(self, NoSheet, <<"lock", "resolve">>)
  ELSE Try(self, xlsx_set_name(Sheet(self), n), Plain)

\* pub fn write_string(&self, row, col, string: &str) -> WasmResult<Worksheet>
write_string(self, row, col, string) ==
  IF ~CanLock(self) THEN LockPanic(self)
  ELSE IF ~Resolves(self) THEN Panic(self, NoSheet, <<"lock", "resolve">>)
  ELSE Try(self, xlsx_write_string(Sheet(self), row, col, string, ""), Plain)

\* pub fn write_number(&self, row, col, number: f64) -> WasmResult<Worksheet>
write_number(self, row, col, number) ==
  IF ~CanLock(self) THEN LockPanic(self)
  ELSE IF ~Resolves(self) THEN Panic(self, NoSheet, <<"lock", "resolve">>)
  ELSE Try(self, xlsx_write_number(Sheet(self), row, col, number, ""), Plain)

\* ------------------------------------------------------ value classifier
\* A host value: its category k and its payload (n a number, s a text).
Host(k, n, s) == [k |-> k, n |-> n, s |-> s]
ExcelData(t, n, s) == [t |-> t, n |-> n, s |-> s]

\* ExcelData::try_from(&JsExcelData): the value classifier, first match wins.
classify(v) ==
  CASE v.k = "Date"    -> [ok |-> TRUE, data |-> ExcelData("DateTime", v.n, "")]
    [] v.k = "Formula" -> [ok |-> TRUE, data |-> ExcelData("Formula", 0, v.s)]
    [] v.k = "Url"     -> [ok |-> TRUE, data |-> ExcelData("Url", 0, v.s)]
    [] v.k = "boolean" -> [ok |-> TRUE, data |-> ExcelData("Boolean", v.n, "")]
    [] v.k = "number"  -> [ok |-> TRUE, data |-> ExcelData("Number", v.n, "")]
    [] v.k = "string"  -> [ok |-> TRUE, data |-> ExcelData("String", 0, v.s)]
    [] v.k = "null"    -> [ok |-> TRUE, data |-> ExcelData("None", 0, "")]
    [] OTHER           -> [ok |-> FALSE, data |-> ExcelData("", 0, "")]

\* Vec<ExcelData>::try_from(&JsExcelDataArray): every element is classified;
\* one failure fails the conversion.
classify_array(values) ==
  [ok |-> \A i \in 1..Len(values) : classify(values[i]).ok,
   data |-> [i \in 1..Len(values) |-> classify(values[i]).data]]

\* Vec<Vec<ExcelData>>::try_from(&JsExcelDataMatrix)
classify_matrix(data) ==
  [ok |-> \A i \in 1..Len(data) : classify_array(data[i]).ok,
   data |-> [i \in 1..Len(data) |-> classify_array(data[i]).data]]

\* utils::datetime_of_jsval: Some(dt) for a native host Date.
datetime_of_jsval(v) == [some |-> v.k = "Date", dt |-> v.n]
\* utils::excel_datetime_of_jsval: Some(dt) for an ExcelDateTime handle.
excel_datetime_of_jsval(v) == [some |-> v.k = "ExcelDateTime", dt |-> v.n]

\* the events of a handler that classifies a host value before its engine call
Classified == <<"lock", "resolve", "classify", "engine">>
\* the same with `&format.lock()` taken for the engine call
ClassifiedWithFormat ==
  <<"lock", "resolve", "classify", "lock_format", "engine", "unlock_format">>

\* pub fn set_header(&self, header: &str) -> Worksheet
set_header(self, header) ==
  IF ~CanLock(self) THEN LockPanic(self)
  ELSE IF ~Resolves(self) THEN Panic(self, NoSheet, <<"lock", "resolve">>)
  ELSE Done(self, [Sheet(self) EXCEPT !.header = header], Plain)

\* pub fn write(&self, row, col, data: &JsExcelData) -> WasmResult<Worksheet>
write(self, row, col, data) ==
  IF ~CanLock(self) THEN LockPanic(self)
  ELSE IF ~Resolves(self) THEN Panic(self, NoSheet, <<"lock", "resolve">>)
  ELSE IF ~classify(data).ok
    THEN Fail(self, Sheet(self), "UnsupportedValueType", <<"lock", "resolve", "classify">>)
  ELSE Try(self, xlsx_write(Sheet(self), row, col, classify(data).data), Classified)

\* pub fn write_with_format(&self, row, col, data: &JsExcelData, format: &Format)
write_with_format(self, row, col, data, format) ==
  IF ~CanLock(self) THEN LockPanic(self)
  ELSE IF ~Resolves(self) THEN Panic(self, NoSheet, <<"lock", "resolve">>)
  ELSE IF ~classify(data).ok
    THEN Fail(self, Sheet(self), "UnsupportedValueType", <<"lock", "resolve", "classify">>)
  ELSE Try(self, xlsx_write_with_format(Sheet(self), row, col, classify(data).data, format),
           ClassifiedWithFormat)

\* variant: write_datetime that accepts a native host Date only
write_datetime_native_only(self, row, col, datetime) ==
  IF ~CanLock(self) THEN LockPanic(self)
  ELSE IF ~Resolves(self) THEN Fail(self, NoSheet, "SheetNotFound", <<"lock", "resolve">>)
  ELSE IF datetime_of_jsval(datetime).some
    THEN Try(self, xlsx_write_datetime(Sheet(self), row, col,
                                       datetime_of_jsval(datetime).dt, ""), Classified)
  ELSE Fail(self, Sheet(self), "InvalidDate", <<"lock", "resolve", "classify">>)

\* pub fn write_datetime(&self, row, col, datetime: &JsValue) -> WasmResult<Worksheet>
write_datetime(self, row, col, datetime) ==
  IF ~CanLock(self) THEN LockPanic(self)
  ELSE IF ~Resolves(self) THEN Fail(self, NoSheet, "SheetNotFound", <<"lock", "resolve">>)
  ELSE IF datetime_of_jsval(datetime).some
    THEN Try(self, xlsx_write_datetime(Sheet(self), row, col,
                                       datetime_of_jsval(datetime).dt, ""), Classified)
  ELSE IF excel_datetime_of_jsval(datetime).some
    THEN Try(self, xlsx_write_datetime(Sheet(self), row, col,
                                       excel_datetime_of_jsval(datetime).dt, ""), Classified)
  ELSE Fail(self, Sheet(self), "InvalidDate", <<"lock", "resolve", "classify">>)

\* pub fn write_datetime_with_format(&self, row, col, datetime: &JsValue,
\*                                   format: &Format) -> WasmResult<Worksheet>
write_datetime_with_format(self, row, col, datetime, format) ==
  IF ~CanLock(self) THEN LockPanic(self)
  ELSE IF ~Resolves(self) THEN Fail(self, NoSheet, "SheetNotFound", <<"lock", "resolve">>)
  ELSE IF datetime_of_jsval(datetime).some
    THEN Try(self, xlsx_write_datetime(Sheet(self), row, col,
                                       datetime_of_jsval(datetime).dt, format),
             ClassifiedWithFormat)
  ELSE IF excel_datetime_of_jsval(datetime).some
    THEN Try(self, xlsx_write_datetime(Sheet(self), row, col,
                                       excel_datetime_of_jsval(datetime).dt, format),
             ClassifiedWithFormat)
  ELSE Fail(self, Sheet(self), "InvalidDate", <<"lock", "resolve", "classify">>)

\* pub fn write_column(&self, row, col, values: &JsExcelDataArray)
write_column(self, row, col, values) ==
  IF ~CanLock(self) THEN LockPanic(self)
  ELSE IF ~Resolves(self) THEN Panic(self, NoSheet, <<"lock", "resolve">>)
  ELSE IF ~classify_array(values).ok
    THEN Fail(self, Sheet(self), "UnsupportedValueType", <<"lock", "resolve", "classify">>)
  ELSE Try(self, xlsx_write_column(Sheet(self), row, col, classify_array(values).data),
           Classified)

\* pub fn write_column_matrix(&self, row, col, data: &JsExcelDataMatrix)
write_column_matrix(self, row, col, data) ==
  IF ~CanLock(self) THEN LockPanic(self)
  ELSE IF ~Resolves(self) THEN Panic(self, NoSheet, <<"lock", "resolve">>)
  ELSE IF ~classify_matrix(data).ok
    THEN Fail(self, Sheet(self), "UnsupportedValueType", <<"lock", "resolve", "classify">>)
  ELSE Try(self, xlsx_write_column_matrix(Sheet(self), row, col, classify_matrix(data).data),
           Classified)

\* the longest prefix of values whose elements all classify
RECURSIVE ClassifiedPrefix(_)
ClassifiedPrefix(values) ==
  IF values = <<>> \/ ~classify(Head(values)).ok THEN <<>>
  ELSE <<Head(values)>> \o ClassifiedPrefix(Tail(values))

\* variant: write_row that classifies and writes element by element
write_row_each(self, row, col, values) ==
  IF ~CanLock(self) THEN LockPanic(self)
  ELSE IF ~Resolves(self) THEN Panic(self, NoSheet, <<"lock", "resolve">>)
  ELSE LET e == xlsx_write_row(Sheet(self), row, col,
                               classify_array(ClassifiedPrefix(values)).data) IN
       IF e.err = "" /\ ~classify_array(values).ok
         THEN Fail(self, e.sheet, "UnsupportedValueType", Classified)
       ELSE Try(self, e, Classified)

\* pub fn write_row(&self, row, col, values: &JsExcelDataArray)
write_row(self, row, col, values) ==
  IF ~CanLock(self) THEN LockPanic(self)
  ELSE IF ~Resolves(self) THEN Panic(self, NoSheet, <<"lock", "resolve">>)
  ELSE IF ~classify_array(values).ok
    THEN Fail(self, Sheet(self), "UnsupportedValueType", <<"lock", "resolve", "classify">>)
  ELSE Try(self, xlsx_write_row(Sheet(self), row, col, classify_array(values).data),
           Classified)

\* pub fn write_row_matrix(&self, row, col, data: &JsExcelDataMatrix)
write_row_matrix(self, row, col, data) ==
  IF ~CanLock(self) THEN LockPanic(self)
  ELSE IF ~Resolves(self) THEN Panic(self, NoSheet, <<"lock", "resolve">>)
  ELSE IF ~classify_matrix(data).ok
    THEN Fail(self, Sheet(self), "UnsupportedValueType", <<"lock", "resolve", "classify">>)
  ELSE Try(self, xlsx_write_row_matrix(Sheet(self), row, col, classify_matrix(data).data),
           Classified)

\* pub fn set_column_range_width(&self, first_col, last_col, width: f64)
set_column_range_width(self, first_col, last_col, width) ==
  IF ~CanLock(self) THEN LockPanic(self)
  ELSE IF ~Resolves(self) THEN Panic(self, NoSheet, <<"lock", "resolve">>)
  ELSE Try(self, xlsx_set_column_range_width(Sheet(self), first_col, last_col, width), Plain)

\* pub fn write_url_with_options(&self, row, col, link: &Url, text, tip,
\*                               format: Option<Format>) -> WasmResult<Worksheet>
\* format is "" for None.  `&*link.lock()` is held for the engine call,
\* `f.lock().clone()` releases the Format before it.
write_url_with_options(self, row, col, link, text, tip, format) ==
  IF ~CanLock(self) THEN LockPanic(self)
  ELSE IF ~Resolves(self) THEN Panic(self, NoSheet, <<"lock", "resolve">>)
  ELSE Try(self, xlsx_write_url_with_options(Sheet(self), row, col, link, text, tip, format),
           IF format = ""
             THEN <<"lock", "resolve", "lock_url", "engine", "unlock_url">>
             ELSE <<"lock", "resolve", "lock_url", "lock_format", "unlock_format", "engine",
                    "unlock_url">>)

\* `sheet.op(..).unwrap(); Ok(self.clone())` applied to an engine result: an
\* Err panics with the guard alive.
Unwrap(self, e, trace) ==
  [(IF e.err # "" THEN Panic(self, e.sheet, trace)
    ELSE Done(self, e.sheet, trace)) EXCEPT !.eng = e.err]

\* pub fn autofilter(&self, first_row, first_col, last_row, last_col)
\*   -> WasmResult<Worksheet>
autofilter(self, first_row, first_col, last_row, last_col) ==
  IF ~CanLock(self) THEN LockPanic(self)
  ELSE IF ~Resolves(self) THEN Panic(self, NoSheet, <<"lock", "resolve">>)
  ELSE Unwrap(self, xlsx_autofilter(Sheet(self), first_row, first_col, last_row, last_col),
              Plain)

\* pub fn merge_range(&self, first_row, first_col, last_row, last_col, value, format)
merge_range(self, first_row, first_col, last_row, last_col, value, format) ==
  IF ~CanLock(self) THEN LockPanic(self)
  ELSE IF ~Resolves(self) THEN Panic(self, NoSheet, <<"lock", "resolve">>)
  ELSE Try(self, xlsx_merge_range(Sheet(self), first_row, first_col, last_row, last_col,
                                  value, format), WithSub("format"))

\* pub fn write_date_with_format(&self, row, col, date: &ExcelDateTime, format: &Format)
\* Both sub-object guards are temporaries of the engine statement: taken in
\* argument order after `book`, dropped in reverse order at its end.
write_date_with_format(self, row, col, date, format) ==
  IF ~CanLock(self) THEN LockPanic(self)
  ELSE IF ~Resolves(self) THEN Fail(self, NoSheet, "SheetNotFound", <<"lock", "resolve">>)
  ELSE Try(self, xlsx_write_datetime(Sheet(self), row, col, date, format),
           <<"lock", "resolve", "lock_date", "lock_format", "engine",
             "unlock_format", "unlock_date">>)

\* pub fn set_range_format_with_border(&self, first_row, first_col, last_row,
\*        last_col, format: &Format, border_format: &Format)
\* format and border_format are two Format objects.
set_range_format_with_border(self, first_row, first_col, last_row, last_col, format, border_format) ==
  IF ~CanLock(self) THEN LockPanic(self)
  ELSE IF ~Resolves(self) THEN Panic(self, NoSheet, <<"lock", "resolve">>)
  ELSE Try(self, xlsx_set_range_format_with_border(Sheet(self), first_row, first_col,
                                                   last_row, last_col, format, border_format),
           <<"lock", "resolve", "lock_format", "lock_border_format", "engine",
             "unlock_border_format", "unlock_format">>)

\* pub fn write_dynamic_array_formula(&self, first_row, first_col, last_row,
\*        last_col, formula: &Formula)
write_dynamic_array_formula(self, first_row, first_col, last_row, last_col, formula) ==
  IF ~CanLock(self) THEN LockPanic(self)
  ELSE IF ~Resolves(self) THEN Panic(self, NoSheet, <<"lock", "resolve">>)
  ELSE Try(self, xlsx_write_dynamic_array_formula(Sheet(self), first_row, first_col, last_row, last_col, formula),
           <<"lock", "resolve", "lock_formula", "engine", "unlock_formula">>)

\* pub fn write_dynamic_array_formula_with_format(.., formula: &Formula, format: &Format)
write_dynamic_array_formula_with_format(self, first_row, first_col, last_row, last_col, formula, format) ==
  IF ~CanLock(self) THEN LockPanic(self)
  ELSE IF ~Resolves(self) THEN Panic(self, NoSheet, <<"lock", "resolve">>)
  ELSE Try(self, xlsx_write_dynamic_array_formula_with_format(Sheet(self), first_row, first_col, last_row, last_col, formula, format),
           <<"lock", "resolve", "lock_formula", "lock_format", "engine", "unlock_format",
             "unlock_formula">>)

\* variant: writeDynamicFormula as a formula of one cell, the first of the range
write_dynamic_formula_one_cell(self, first_row, first_col, last_row, last_col, formula) ==
  IF ~CanLock(self) THEN LockPanic(self)
  ELSE IF ~Resolves(self) THEN Panic(self, NoSheet, <<"lock", "resolve">>)
  ELSE Try(self, xlsx_write_dynamic_array_formula(Sheet(self), first_row, first_col, first_row, first_col, formula),
           <<"lock", "resolve", "lock_formula", "engine", "unlock_formula">>)

\* #[wasm_bindgen(js_name = "writeDynamicFormula")] pub fn write_dyncmic_formula
write_dyncmic_formula(self, first_row, first_col, last_row, last_col, formula) ==
  IF ~CanLock(self) THEN LockPanic(self)
  ELSE IF ~Resolves(self) THEN Panic(self, NoSheet, <<"lock", "resolve">>)
  ELSE Try(self, xlsx_write_dynamic_array_formula(Sheet(self), first_row, first_col, last_row, last_col, formula),
           <<"lock", "resolve", "lock_formula", "engine", "unlock_formula">>)

\* #[wasm_bindgen(js_name = "writeDynamicFormulaWithFormat")]
write_dynamic_formula_with_format(self, first_row, first_col, last_row, last_col, formula, format) ==
  IF ~CanLock(self) THEN LockPanic(self)
  ELSE IF ~Resolves(self) THEN Panic(self, NoSheet, <<"lock", "resolve">>)
  ELSE Try(self, xlsx_write_dynamic_array_formula_with_format(Sheet(self), first_row, first_col, last_row, last_col, formula, format),
           <<"lock", "resolve", "lock_formula", "lock_format", "engine", "unlock_format",
             "unlock_formula">>)

\* pub fn add_table(&self, first_row, first_col, last_row, last_col, table: &Table)
add_table(self, first_row, first_col, last_row, last_col, table) ==
  IF ~CanLock(self) THEN LockPanic(self)
  ELSE IF ~Resolves(self) THEN Panic(self, NoSheet, <<"lock", "resolve">>)
  ELSE Discard(self, xlsx_add_table(Sheet(self), first_row, first_col, last_row, last_col,
                                    table), Plain)

\* pub fn add_conditional_format(&mut self, first_row, first_col, last_row,
\*                               last_col, format: &ConditionalFormatFormula)
add_conditional_format(self, first_row, first_col, last_row, last_col, format) ==
  IF ~CanLock(self) THEN LockPanic(self)
  ELSE IF ~Resolves(self) THEN Panic(self, NoSheet, <<"lock", "resolve">>)
  ELSE Discard(self, xlsx_add_conditional_format(Sheet(self), first_row, first_col,
                                                 last_row, last_col, format), Plain)

\* --------------------------------------------------------- Chart handles
\* pub struct Chart { inner: Arc<Mutex<xlsx::Chart>> }
ChartIds == 1..MaxCharts
Chart(inner) == [inner |-> inner]
NoChartHandle == Chart(0)
NoChart ==
  [chart_type |-> "", name |-> "", width |-> 0, series |-> <<>>, combined |-> <<>>,
   live |-> FALSE, alt_text |-> "", height |-> 0]
NoChartCall ==
  [op |-> "", via |-> 0, other |-> 0, status |-> "", ret |-> NoChartHandle, trace |-> <<>>,
   at |-> 0]

\* the engine's Chart value as xlsx::Chart::new(chart_type) builds it
xlsx_Chart_new(chart_type) ==
  [chart_type |-> chart_type, name |-> "", width |-> 480, series |-> <<>>,
   combined |-> <<>>, live |-> TRUE, alt_text |-> "", height |-> 288]

\* xlsx::Chart::combine: the receiver stores a clone of the other chart.
xlsx_Chart_combine(chart, other) == [chart EXCEPT !.combined = <<other>>]

COut(c, m, status, ret, trace) ==
  [charts |-> c, cmutex |-> m, status |-> status, ret |-> ret, trace |-> trace]

\* self.inner.lock().unwrap() on a mutex that is not free
ChartLockPanic == COut(charts, cmutex, "panic", NoChartHandle, <<"lock_failed">>)

\* variant: a mutator that stores its result as a second chart value, in the
\* next slot, and returns a handle of that
ChartDoneCopy(self, chart, trace) ==
  COut([charts EXCEPT ![(self.inner % MaxCharts) + 1] = chart],
       [cmutex EXCEPT ![self.inner] = "unlocked"],
       "ok", Chart((self.inner % MaxCharts) + 1), trace \o <<"unlock">>)

\* the tail of every Chart mutator: Chart { inner: Arc::clone(&self.inner) },
\* the guard dropped on the way out
ChartDone(self, chart, trace) ==
  COut([charts EXCEPT ![self.inner] = chart],
       [cmutex EXCEPT ![self.inner] = "unlocked"],
       "ok", Chart(self.inner), trace \o <<"unlock">>)

\* pub fn new(chart_type: ChartType) -> Chart, into the free slot c
new(c, chart_type) ==
  COut([charts EXCEPT ![c] = xlsx_Chart_new(chart_type)], cmutex, "ok", Chart(c), <<>>)

\* The named constructors, each with the name it is exported under:
\* pub fn new_area() -> Chart                       js_name = "newArea"
new_area(c) == new(c, "Area")
\* pub fn new_bar() -> Chart                        js_name = "newBar"
new_bar(c) == new(c, "Bar")
\* pub fn new_column() -> Chart                     js_name = "newColumn"
new_column(c) == new(c, "Column")
\* pub fn new_doughnut() -> Chart                   js_name = "newColumnStacked"
new_doughnut(c) == new(c, "Doughnut")
\* pub fn new_line() -> Chart                       js_name = "newLine"
new_line(c) == new(c, "Line")
\* pub fn new_pie() -> Chart                        js_name = "newPie"
new_pie(c) == new(c, "Pie")
\* pub fn new_radar() -> Chart                      js_name = "newRadar"
new_radar(c) == new(c, "Radar")
\* pub fn new_scatter() -> Chart                    js_name = "newScatter"
new_scatter(c) == new(c, "Scatter")
\* pub fn new_stock() -> Chart                      js_name = "newStock"
new_stock(c) == new(c, "Stock")

\* pub fn set_name(&self, name: &str) -> Chart
Chart_set_name(self, n) ==
  IF cmutex[self.inner] # "unlocked" THEN ChartLockPanic
  ELSE ChartDone(self, [charts[self.inner] EXCEPT !.name = n], <<"lock", "engine">>)

\* pub fn set_width(&self, width: u32) -> Chart
Chart_set_width(self, width) ==
  IF cmutex[self.inner] # "unlocked" THEN ChartLockPanic
  ELSE ChartDone(self, [charts[self.inner] EXCEPT !.width = width], <<"lock", "engine">>)

\* pub fn set_alt_text(&self, alt_text: &str) -> Chart
Chart_set_alt_text(self, alt_text) ==
  IF cmutex[self.inner] # "unlocked" THEN ChartLockPanic
  ELSE ChartDone(self, [charts[self.inner] EXCEPT !.alt_text = alt_text], <<"lock", "engine">>)

\* pub fn set_height(&self, height: u32) -> Chart
Chart_set_height(self, height) ==
  IF cmutex[self.inner] # "unlocked" THEN ChartLockPanic
  ELSE ChartDone(self, [charts[self.inner] EXCEPT !.height = height], <<"lock", "engine">>)

\* The component handles: ChartTitle { chart }, ChartLegend { chart } and
\* ChartAxis { inner, axis } around Arc::clone(&self.inner).  No lock is taken.
Component(kind, inner, axis) == [kind |-> kind, inner |-> inner, axis |-> axis]
title(self) == COut(charts, cmutex, "ok", Component("ChartTitle", self.inner, ""), <<>>)
legend(self) == COut(charts, cmutex, "ok", Component("ChartLegend", self.inner, ""), <<>>)
x_axis(self) == COut(charts, cmutex, "ok", Component("ChartAxis", self.inner, "X"), <<>>)
y_axis(self) == COut(charts, cmutex, "ok", Component("ChartAxis", self.inner, "Y"), <<>>)
x2_axis(self) == COut(charts, cmutex, "ok", Component("ChartAxis", self.inner, "X2"), <<>>)
y2_axis(self) == COut(charts, cmutex, "ok", Component("ChartAxis", self.inner, "Y2"), <<>>)

\* variant: a combine that stores into the argument's chart and returns it
combineIntoOther(self, other) ==
  IF cmutex[self.inner] # "unlocked" \/ cmutex[other.inner] # "unlocked" \/ other.inner = self.inner
    THEN {ChartLockPanic}
  ELSE {ChartDone(other, xlsx_Chart_combine(charts[other.inner], charts[self.inner]),
                  <<"lock", "lock_other", "engine", "unlock_other">>)}

\* pub fn combine(&mut self, other: &Chart) -> Chart
\* The receiver's mutex is locked first, then `other.lock()` locks the
\* other's.  When both handles share one Arc the second lock is taken on a
\* mutex this very call holds: std leaves that to the platform, the call
\* panics or blocks forever, and it never returns.  The set of outcomes.
combine(self, other) ==
  IF cmutex[self.inner] # "unlocked" THEN {ChartLockPanic}
  ELSE IF other.inner = self.inner
    THEN {COut(charts, [cmutex EXCEPT ![self.inner] = "poisoned"], "panic",
               NoChartHandle, <<"lock", "lock_other", "panic">>),
          COut(charts, [cmutex EXCEPT ![self.inner] = "locked"], "deadlock",
               NoChartHandle, <<"lock", "lock_other">>)}
  ELSE IF cmutex[other.inner] # "unlocked"
    THEN {COut(charts, [cmutex EXCEPT ![self.inner] = "poisoned"], "panic",
               NoChartHandle, <<"lock", "lock_other", "panic">>)}
  ELSE {ChartDone(self, xlsx_Chart_combine(charts[self.inner], charts[other.inner]),
                  <<"lock", "lock_other", "engine", "unlock_other">>)}

\* ----------------------------------------------------- ChartSeries handles
\* pub struct ChartSeries { inner: Arc<Mutex<xlsx::ChartSeries>> }, as
\* push_series uses it (series.inner.lock().unwrap()).
SeriesIds == 1..MaxSeries
ChartSeries(inner) == [inner |-> inner]
NoSeries == [name |-> "", live |-> FALSE]
xlsx_ChartSeries_new == [name |-> "", live |-> TRUE]

\* ChartSeries::new() into the free slot x; ChartSeries::set_name(name)
ChartSeries_new(x) == [series EXCEPT ![x] = xlsx_ChartSeries_new]
ChartSeries_set_name(self, n) == [series EXCEPT ![self.inner].name = n]

\* variant: the pushed series is put in front of the chart's series
PushSeriesFirst(chart, s) == [chart EXCEPT !.series = <<s>> \o @]

\* xlsx::Chart::push_series(&series): a clone of the series is appended.
xlsx_Chart_push_series(chart, s) == [chart EXCEPT !.series = Append(@, s)]

\* pub fn push_series(&self, series: &ChartSeries) -> Chart
push_series(self, s) ==
  IF cmutex[self.inner] # "unlocked" THEN ChartLockPanic
  ELSE ChartDone(self, xlsx_Chart_push_series(charts[self.inner], series[s.inner]),
                 <<"lock", "lock_series", "engine", "unlock_series">>)

\* variant: an insertion that embeds a fresh chart of the same type
InsertFresh(sheet, row, col, chart, x_offset, y_offset) ==
  IF ~InGrid(row, col) THEN EErr(sheet, "RowColumnLimitError")
  ELSE EOk([sheet EXCEPT !.charts =
              [p \in DOMAIN sheet.charts \cup {<<row, col>>} |->
                 IF p = <<row, col>>
                   THEN [chart |-> xlsx_Chart_new(chart.chart_type),
                         x_offset |-> x_offset, y_offset |-> y_offset]
                   ELSE sheet.charts[p]]])

\* sheet.insert_chart_with_offset(row, col, &chart, x_offset, y_offset): the
\* position is checked, the chart is cloned and the clone validated (a chart
\* needs a series) and stored with its offsets at (row, col).
xlsx_insert_chart_with_offset(sheet, row, col, chart, x_offset, y_offset) ==
  IF ~InGrid(row, col) THEN EErr(sheet, "RowColumnLimitError")
  ELSE IF chart.series = <<>> THEN EErr(sheet, "ChartError")
  ELSE EOk([sheet EXCEPT !.charts =
              [p \in DOMAIN sheet.charts \cup {<<row, col>>} |->
                 IF p = <<row, col>>
                   THEN [chart |-> chart, x_offset |-> x_offset, y_offset |-> y_offset]
                   ELSE sheet.charts[p]]])

\* sheet.insert_chart(row, col, &chart): the same with no offsets
xlsx_insert_chart(sheet, row, col, chart) ==
  xlsx_insert_chart_with_offset(sheet, row, col, chart, 0, 0)

\* pub fn insert_chart(&self, row, col, chart: &Chart) -> WasmResult<Worksheet>
\* `&chart.lock()` is taken with the Document guard alive.
insert_chart(self, row, col, chart) ==
  IF ~CanLock(self) THEN LockPanic(self)
  ELSE IF ~Resolves(self) THEN Panic(self, NoSheet, <<"lock", "resolve">>)
  ELSE IF cmutex[chart.inner] # "unlocked"
    THEN Panic(self, Sheet(self), <<"lock", "resolve", "lock_chart">>)
  ELSE Try(self, xlsx_insert_chart(Sheet(self), row, col, charts[chart.inner]),
           WithSub("chart"))

\* pub fn insert_chart_with_offset(&self, row, col, chart, x_offset, y_offset)
insert_chart_with_offset(self, row, col, chart, x_offset, y_offset) ==
  IF ~CanLock(self) THEN LockPanic(self)
  ELSE IF ~Resolves(self) THEN Panic(self, NoSheet, <<"lock", "resolve">>)
  ELSE IF cmutex[chart.inner] # "unlocked"
    THEN Panic(self, Sheet(self), <<"lock", "resolve", "lock_chart">>)
  ELSE Try(self, xlsx_insert_chart_with_offset(Sheet(self), row, col, charts[chart.inner],
                                               x_offset, y_offset),
           WithSub("chart"))

\* The host issues a ChartSeries call on the series in slot x.
SeriesCall(op, x, o) ==
  /\ left > 0
  /\ cres.status # "deadlock"
  /\ series' = o
  /\ cres' = [op |-> op, via |-> 0, other |-> x, status |-> "ok", ret |-> NoChartHandle,
              trace |-> <<>>, at |-> left]
  /\ left' = left - 1
  /\ UNCHANGED <<wvars, charts, cmutex, chandles, cformats, cfres, wasm, threads>>

\* The host issues a Chart call through the handle in its slot k (0 for a
\* constructor) and the handler runs to its end with outcome o.  The host
\* may keep the handle the call returned next to the ones it has.
ChartCall(op, k, j, o) ==
  /\ left > 0
  /\ cres.status # "deadlock"
  /\ charts' = o.charts
  /\ cmutex' = o.cmutex
  /\ cres' = [op |-> op, via |-> k, other |-> j, status |-> o.status, ret |-> o.ret,
              trace |-> o.trace, at |-> left]
  /\ left' = left - 1
  /\ \/ chandles' = chandles
     \/ /\ o.status = "ok"
        /\ Len(chandles) < MaxChartHandles
        /\ chandles' = Append(chandles, o.ret)
  /\ UNCHANGED <<wvars, series, cformats, cfres, wasm, threads>>

\* The host asks the Chart handle in its slot k for a component handle; the
\* host keeps component handles apart from its Chart handles.
ComponentCall(op, k, o) ==
  /\ left > 0
  /\ cres.status # "deadlock"
  /\ charts' = o.charts
  /\ cmutex' = o.cmutex
  /\ cres' = [op |-> op, via |-> k, other |-> 0, status |-> o.status, ret |-> o.ret,
              trace |-> o.trace, at |-> left]
  /\ left' = left - 1
  /\ UNCHANGED <<wvars, chandles, series, cformats, cfres, wasm, threads>>

\* ------------------------------------------- conditional-format rule objects
\* The rule classes are plain structs around an engine value (`inner`, no
\* Arc, no Mutex): the host holds each object by itself.
RuleIds == 1..MaxRules
NoRule == [class |-> "", inner |-> <<>>]

\* xlsx::ConditionalFormatFormula::new()
xlsx_ConditionalFormatFormula_new == [rule |-> "", format |-> "", stop |-> FALSE]

\* xlsx::ConditionalFormatDataBar::new(): automatic bounds, the default colours
xlsx_ConditionalFormatDataBar_new ==
  [min |-> <<"Automatic", 0>>, max |-> <<"Automatic", 0>>,
   fill_color |-> "638EC6", border_color |-> "638EC6"]

\* a Percent or Percentile bound outside 0..100 is refused by the builder
BoundRefused(rule_type, value) ==
  rule_type \in {"Percent", "Percentile"} /\ (value < 0 \/ value > 100)

\* inner.set_minimum(rule_type, value): a refused bound and the types Lowest
\* and Highest leave the rule as it is.
xlsx_DataBar_set_minimum(inner, rule_type, value) ==
  IF BoundRefused(rule_type, value) \/ rule_type \in {"Lowest", "Highest"} THEN inner
  ELSE [inner EXCEPT !.min = <<rule_type, value>>]

\* inner.set_maximum(rule_type, value)
xlsx_DataBar_set_maximum(inner, rule_type, value) ==
  IF BoundRefused(rule_type, value) \/ rule_type \in {"Lowest", "Highest"} THEN inner
  ELSE [inner EXCEPT !.max = <<rule_type, value>>]

\* ConditionalFormatFormula::new() (constructor)
ConditionalFormatFormula_new ==
  [class |-> "ConditionalFormatFormula", inner |-> xlsx_ConditionalFormatFormula_new]

\* ConditionalFormatFormula::set_rule(&mut self, rule: &Formula)
ConditionalFormatFormula_set_rule(self, rule) ==
  [self EXCEPT !.inner = [self.inner EXCEPT !.rule = rule]]

\* ConditionalFormatFormula::set_stop_if_true(&mut self, enable: bool)
ConditionalFormatFormula_set_stop_if_true(self, enable) ==
  [self EXCEPT !.inner = [self.inner EXCEPT !.stop = enable]]

\* Format::new() and a Format setter (wrapper/format.rs): a Format object
\* the host holds; inner names the formatting it carries.
Format_new == [class |-> "Format", inner |-> "default"]
Format_set_bold(self) == [self EXCEPT !.inner = "bold"]

\* ConditionalFormatDataBar::new() (constructor)
ConditionalFormatDataBar_new ==
  [class |-> "ConditionalFormatDataBar", inner |-> xlsx_ConditionalFormatDataBar_new]

\* ConditionalFormatDataBar::set_minimum(&mut self, rule_type, value)
set_minimum(self, rule_type, value) ==
  [self EXCEPT !.inner = xlsx_DataBar_set_minimum(self.inner, rule_type, value)]

\* variant: a set_maximum that transforms a new engine value
set_maximum_fresh(self, rule_type, value) ==
  [self EXCEPT !.inner = xlsx_DataBar_set_maximum(xlsx_ConditionalFormatDataBar_new,
                                                  rule_type, value)]

\* ConditionalFormatDataBar::set_maximum(&mut self, rule_type, value)
set_maximum(self, rule_type, value) ==
  [self EXCEPT !.inner = xlsx_DataBar_set_maximum(self.inner, rule_type, value)]

\* ConditionalFormatDataBar::set_fill_color(&mut self, color: Color)
set_fill_color(self, color) ==
  [self EXCEPT !.inner = [self.inner EXCEPT !.fill_color = color]]

\* ConditionalFormatDataBar::set_border_color(&mut self, color: Color)
set_border_color(self, color) ==
  [self EXCEPT !.inner = [self.inner EXCEPT !.border_color = color]]

\* The setters are declared `pub fn set_x(&mut self, ..)` with no return
\* type: the host receives nothing (undefined).
Unit == 0
NoRuleCall == [op |-> "", slot |-> 0, ret |-> Unit, at |-> 0]

\* The exported addConditionalFormat as the host calls it.  Its last
\* parameter is declared `format: &ConditionalFormatFormula`: an object of
\* another exported class does not pass the boundary, the call throws and
\* the handler body does not run.
addConditionalFormat(self, first_row, first_col, last_row, last_col, format) ==
  IF format.class # "ConditionalFormatFormula"
    THEN Out(docs, mutex, "err", "ExpectedConditionalFormatFormula", NoHandle, <<>>, <<>>)
  ELSE add_conditional_format(self, first_row, first_col, last_row, last_col, format.inner)

\* The exported writeUrlWithOptions as the host calls it; format is the
\* object passed, NoRule for undefined.
writeUrlWithOptions(self, row, col, link, text, tip, format) ==
  IF format.class \notin {"", "Format"}
    THEN Out(docs, mutex, "err", "ExpectedFormat", NoHandle, <<>>, <<>>)
  ELSE write_url_with_options(self, row, col, link, text, tip,
                              IF format.class = "" THEN "" ELSE format.inner)

\* The host issues a Worksheet call that takes the object in slot r by
\* value (`format: Option<Format>`, not a reference): the object is moved
\* into the call, and the host's handle of it is empty afterwards.
MoveCall(op, k, args, o, r) ==
  /\ left > 0
  /\ docs' = o.docs
  /\ mutex' = o.mutex
  /\ res' = [op |-> op, via |-> k, recv |-> handles[k], args |-> args,
             status |-> o.status, err |-> o.err, ret |-> o.ret, val |-> o.val,
             trace |-> o.trace, eng |-> o.eng, at |-> left]
  /\ prev' = docs
  /\ left' = left - 1
  /\ \/ handles' = handles
     \/ o.status = "ok" /\ o.ret # NoHandle /\ handles' = [handles EXCEPT ![k] = o.ret]
  /\ cformats' = [cformats EXCEPT ![r] = NoRule]
  /\ UNCHANGED <<writes, cvars, series, cfres, wasm, threads>>

\* The host constructs the rule object in slot r or calls one of its setters,
\* and the object is then o.  The setters return nothing and cannot fail.
\* ret is what the host receives: the handle of the object in slot ret, or
\* Unit.
RuleCall(op, r, o, ret) ==
  /\ left > 0
  /\ cformats' = [cformats EXCEPT ![r] = o]
  /\ cfres' = [op |-> op, slot |-> r, ret |-> ret, at |-> left]
  /\ left' = left - 1
  /\ UNCHANGED <<wvars, cvars, series, wasm, threads>>

\* ---------------------------------------------------- concurrent callers
\* Two callers run handlers at the same time.  A handler is the sequence of
\* its lock, engine and unlock events in program order (a guard bound by
\* `let` is dropped at the end of the function, a temporary guard such as
\* `&*other.lock()` at the end of its statement); the callers interleave at
\* these events.  Mutex::lock blocks while another caller holds the mutex.
Callers == {1, 2}
NoLock == <<"", 0>>
Ev(k, l) == [k |-> k, l |-> l]
NoOp == [op |-> "", a |-> 0, b |-> 0, arg |-> <<>>]
Idle == [call |-> NoOp, plan |-> <<>>, held |-> {}, last |-> NoOp, n |-> 0]

\* the events of one handler, in program order
PlanOf(call) ==
  CASE call.op = "combine" ->
         <<Ev("lock", <<"chart", call.a>>), Ev("lock", <<"chart", call.b>>),
           Ev("engine", NoLock),
           Ev("unlock", <<"chart", call.b>>), Ev("unlock", <<"chart", call.a>>)>>
    [] call.op = "push_series" ->
         <<Ev("lock", <<"chart", call.a>>), Ev("lock", <<"series", call.b>>),
           Ev("engine", NoLock),
           Ev("unlock", <<"series", call.b>>), Ev("unlock", <<"chart", call.a>>)>>
    [] call.op \in {"set_name", "set_width"} ->
         <<Ev("lock", <<"chart", call.a>>), Ev("engine", NoLock),
           Ev("unlock", <<"chart", call.a>>)>>
    [] call.op = "insert_chart" ->
         <<Ev("lock", <<"doc", handles[call.b].workbook>>), Ev("lock", <<"chart", call.a>>),
           Ev("engine", NoLock),
           Ev("unlock", <<"chart", call.a>>), Ev("unlock", <<"doc", handles[call.b].workbook>>)>>

\* variant: a set_width that stores a fresh chart of the given width
ThreadChartsFresh(call) ==
  CASE call.op = "combine" ->
         [charts EXCEPT ![call.a] = xlsx_Chart_combine(@, charts[call.b])]
    [] call.op = "push_series" ->
         [charts EXCEPT ![call.a] = xlsx_Chart_push_series(@, series[call.b])]
    [] call.op = "set_name" -> [charts EXCEPT ![call.a].name = call.arg]
    [] call.op = "set_width" ->
         [charts EXCEPT ![call.a] = [xlsx_Chart_new(@.chart_type) EXCEPT !.width = call.arg]]
    [] OTHER -> charts

\* the Chart store after the engine call of a handler
ThreadCharts(call) ==
  CASE call.op = "combine" ->
         [charts EXCEPT ![call.a] = xlsx_Chart_combine(@, charts[call.b])]
    [] call.op = "push_series" ->
         [charts EXCEPT ![call.a] = xlsx_Chart_push_series(@, series[call.b])]
    [] call.op = "set_name" -> [charts EXCEPT ![call.a].name = call.arg]
    [] call.op = "set_width" -> [charts EXCEPT ![call.a].width = call.arg]
    [] OTHER -> charts

\* the Document store after the engine call of a handler
ThreadDocs(call) ==
  IF call.op = "insert_chart"
    THEN LET h == handles[call.b] IN
         [docs EXCEPT ![h.workbook].sheets[h.index + 1] =
            xlsx_insert_chart(@, call.arg[1], call.arg[2], charts[call.a]).sheet]
  ELSE docs

\* the mutex is held by no caller
FreeLock(l) == \A t \in Callers : l \notin threads[t].held

\* caller t can take its next event
CanStep(t) ==
  /\ threads[t].plan # <<>>
  /\ Head(threads[t].plan).k = "lock" => FreeLock(Head(threads[t].plan).l)

\* the mutex states that follow from the locks the callers hold
HeldBy(ths) == UNION {ths[t].held : t \in Callers}
DocLocks(ths) ==
  [d \in DocIds |-> IF <<"doc", d>> \in HeldBy(ths) THEN "locked" ELSE "unlocked"]
ChartLocks(ths) ==
  [c \in ChartIds |-> IF <<"chart", c>> \in HeldBy(ths) THEN "locked" ELSE "unlocked"]

\* Caller t enters a handler.
Begin(t, call) ==
  /\ left > 0
  /\ threads[t].plan = <<>>
  /\ threads' = [threads EXCEPT ![t].call = call, ![t].plan = PlanOf(call)]
  /\ left' = left - 1
  /\ UNCHANGED <<wvars, cvars, series, cformats, cfres, wasm>>

\* Caller t takes the next event of its handler; after the last one the
\* handler has returned.
Step(t) ==
  /\ CanStep(t)
  /\ LET th == threads[t]
         ev == Head(th.plan)
         rest == Tail(th.plan)
         ths == [threads EXCEPT
                   ![t].plan = rest,
                   ![t].held = IF ev.k = "lock" THEN @ \cup {ev.l}
                               ELSE IF ev.k = "unlock" THEN @ \ {ev.l} ELSE @,
                   ![t].last = IF rest = <<>> THEN th.call ELSE @,
                   ![t].n = IF rest = <<>> THEN @ + 1 ELSE @] IN
     /\ threads' = ths
     /\ mutex' = DocLocks(ths)
     /\ cmutex' = ChartLocks(ths)
     /\ charts' = IF ev.k = "engine" THEN ThreadCharts(th.call) ELSE charts
     /\ prev' = docs
     /\ docs' = IF ev.k = "engine" THEN ThreadDocs(th.call) ELSE docs
  /\ UNCHANGED <<handles, res, left, writes, chandles, cres, series, cformats, cfres, wasm>>

\* ------------------------------------------------------ module instance
\* once: the state of the Once inside console_error_panic_hook::set_once;
\* installs: how many times panic::set_hook ran; calls: how many times
\* start() ran (the first run is the one at instantiation).
NotInstantiated == [instantiated |-> FALSE, once |-> FALSE, installs |-> 0, calls |-> 0]

\* variant: a hook installation without the Once
set_always(w) == [w EXCEPT !.once = TRUE, !.installs = @ + 1]

\* console_error_panic_hook::set_once(): SET_HOOK.call_once(|| set_hook(..))
set_once(w) ==
  IF w.once THEN w ELSE [w EXCEPT !.once = TRUE, !.installs = @ + 1]

\* #[wasm_bindgen(start)] pub fn start()
start(w) == [set_once(w) EXCEPT !.instantiated = TRUE, !.calls = @ + 1]

\* The host instantiates the module: the start function runs.
Instantiate ==
  /\ ~wasm.instantiated
  /\ wasm' = start(wasm)
  /\ UNCHANGED <<wvars, cvars, left, series, cformats, cfres, threads>>

\* The host calls the exported start() of the instantiated module.
StartCall ==
  /\ left > 0
  /\ wasm.instantiated
  /\ wasm' = start(wasm)
  /\ left' = left - 1
  /\ UNCHANGED <<wvars, cvars, series, cformats, cfres, threads>>

\* ------------------------------------------------------------ host inputs
EdgeCells == {<<0, 0>>, <<ROW_MAX, 0>>}
OneCell == {<<0, 0>>, <<0, COL_MAX>>}
Numbers == {1, 2}
Strings == {"a"}
Names == {<<>>, <<"A">>, Chars(MAX_SHEETNAME_LEN + 1, "x")}
Num(n) == Host("number", n, "")
Symbol == Host("symbol", 0, "")
HostValues == {Num(1), Host("string", 0, "a"), Symbol}
DateValues == {Host("Date", 1, ""), Host("ExcelDateTime", 2, ""), Host("string", 0, "a")}
\* where a row or a column of values starts: inside the grid, or with only
\* its first cell inside
RowStarts == {<<0, 0>>, <<0, COL_MAX - 1>>}
ColStarts == {<<0, 0>>, <<ROW_MAX - 1, 0>>}
Arrays == {<<Num(1), Num(2)>>, <<Num(1), Symbol>>}
Matrices == {<<<<Num(1)>>, <<Num(2)>>>>, <<<<Num(1)>>, <<Symbol>>>>}
\* a cell and its value: every value at (0,0), one value outside the grid
WriteArgs == ({<<0, 0>>} \X HostValues) \cup {<<<<0, COL_MAX>>, Num(1)>>}
DateArgs == ({<<0, 0>>} \X DateValues) \cup {<<<<0, COL_MAX>>, Host("Date", 1, "")>>}
\* a start and its values: every sequence from (0,0), the all-numbers one
\* from the start that leaves only its first cell inside the grid
RowArgs == ({<<0, 0>>} \X Arrays) \cup ((RowStarts \ {<<0, 0>>}) \X {<<Num(1), Num(2)>>})
ColArgs == ({<<0, 0>>} \X Arrays) \cup ((ColStarts \ {<<0, 0>>}) \X {<<Num(1), Num(2)>>})
RowMatrixArgs ==
  ({<<0, 0>>} \X Matrices) \cup ((ColStarts \ {<<0, 0>>}) \X {<<<<Num(1)>>, <<Num(2)>>>>})
ColMatrixArgs ==
  ({<<0, 0>>} \X Matrices) \cup ((RowStarts \ {<<0, 0>>}) \X {<<<<Num(1)>>, <<Num(2)>>>>})
ColRanges == {<<0, 1>>, <<1, 0>>, <<COL_MAX - 1, COL_MAX>>}
Widths == {20}
Ranges == {<<0, 0, 1, 1>>, <<1, 1, 0, 0>>, <<0, 0, ROW_MAX, 0>>}
MergeRanges == Ranges \cup {<<1, 1, 2, 2>>, <<2, 2, 2, 2>>}
Formats == {"bold"}
Tables == {[header |-> TRUE]}
Rules == {[rule |-> "=A1>5", format |-> "bold", stop |-> FALSE]}
ChartTypes == {"Line", "Column"}
ChartNames == {"sales"}
ChartWidths == {640}
SeriesNames == {"north"}
TypeSelector ==
  {"Area", "Bar", "Column", "Line", "Pie", "Radar", "Scatter", "Stock", "Doughnut"}
Offsets == {<<5, 7>>}
BoundTypes == {"Number", "Lowest"}
BoundValues == {0, 100}
Colors == {"FF0000"}
FormulaRules == {"=A1>5"}
BarRanges == {<<0, 0, 9, 0>>}
Headers == {"&CTitle"}
RaceNames == {"sales", "costs"}
Links == {"https://example.com"}
AltTexts == {"a chart"}
ChartHeights == {300}
DateSerials == {45000}
DynamicFormulas == {"=LEN(A1:A3)"}
BorderFormats == {"thin"}

\* ----------------------------------------------------------- specification
\* One construction session: a Workbook with NumSheets sheets in slot 1.
\* The host holds two handles for the first sheet, one for the last sheet,
\* and one whose index is past the last sheet (the struct does not constrain
\* its index; worksheet.rs provides for the failed lookup at line 688).
NoCall ==
  [op |-> "", via |-> 0, recv |-> NoHandle, args |-> <<>>, status |-> "", err |-> "",
   ret |-> NoHandle, val |-> <<>>, trace |-> <<>>, eng |-> "", at |-> 0]

Session(budget) ==
  /\ docs = [d \in DocIds |-> IF d = 1 THEN NewWorkbook ELSE NoDoc]
  /\ mutex = [d \in DocIds |-> "unlocked"]
  /\ handles = <<Worksheet(1, 0), Worksheet(1, 0), Worksheet(1, NumSheets - 1),
                 Worksheet(1, NumSheets)>>
  /\ res = NoCall
  /\ prev = docs
  /\ left = budget
  /\ writes = <<>>
  /\ charts = [c \in ChartIds |-> NoChart]
  /\ cmutex = [c \in ChartIds |-> "unlocked"]
  /\ chandles = <<>>
  /\ cres = NoChartCall
  /\ series = [x \in SeriesIds |-> NoSeries]
  /\ cformats = [r \in RuleIds |-> NoRule]
  /\ cfres = NoRuleCall
  /\ wasm = start(NotInstantiated)
  /\ threads = [t \in Callers |-> Idle]

Init == Session(MaxOps)

Handles == 1..Len(handles)

Next ==
  \/ \E k \in Handles : Call("name", k, <<>>, name(handles[k]))
  \/ \E k \in Handles, n \in Names : Call("set_name", k, <<n>>, set_name(handles[k], n))
  \/ \E k \in Handles, rc \in OneCell, s \in Strings :
       Call("write_string", k, <<rc, s>>, write_string(handles[k], rc[1], rc[2], s))
  \/ \E k \in Handles, rc \in EdgeCells :
       Call("write_number", k, <<rc, 1>>, write_number(handles[k], rc[1], rc[2], 1))
  \/ \E k \in Handles, a \in WriteArgs :
       Call("write", k, a, write(handles[k], a[1][1], a[1][2], a[2]))
  \/ \E k \in Handles, a \in DateArgs :
       Call("write_datetime", k, a, write_datetime(handles[k], a[1][1], a[1][2], a[2]))
  \/ \E k \in Handles, a \in ColArgs :
       Call("write_column", k, a, write_column(handles[k], a[1][1], a[1][2], a[2]))
  \/ \E k \in Handles, a \in ColMatrixArgs :
       Call("write_column_matrix", k, a,
            write_column_matrix(handles[k], a[1][1], a[1][2], a[2]))
  \/ \E k \in Handles, a \in RowArgs :
       Call("write_row", k, a, write_row(handles[k], a[1][1], a[1][2], a[2]))
  \/ \E k \in Handles, a \in RowMatrixArgs :
       Call("write_row_matrix", k, a, write_row_matrix(handles[k], a[1][1], a[1][2], a[2]))
  \/ \E k \in Handles, cr \in ColRanges, w \in Widths :
       Call("set_column_range_width", k, <<cr, w>>,
            set_column_range_width(handles[k], cr[1], cr[2], w))
  \/ \E k \in Handles, r \in MergeRanges, s \in Strings, f \in Formats :
       Call("merge_range", k, <<r, s, f>>,
            merge_range(handles[k], r[1], r[2], r[3], r[4], s, f))
  \/ \E k \in Handles, r \in Ranges, t \in Tables :
       Call("add_table", k, <<r, t>>, add_table(handles[k], r[1], r[2], r[3], r[4], t))
  \/ \E k \in Handles, r \in Ranges, c \in Rules :
       Call("add_conditional_format", k, <<r, c>>,
            add_conditional_format(handles[k], r[1], r[2], r[3], r[4], c))

Spec == Init /\ [][Next]_vars

\* write_number alone, through the two handles of the first sheet and the
\* handle of the second, on the cells (0,0), (0,1), (1,0).
InitOrder == Session(MaxWrites)

OrderCells == {<<0, 0>>, <<0, 1>>, <<1, 0>>}

NextOrder ==
  \E k \in 1..3, rc \in OrderCells, n \in Numbers :
    Call("write_number", k, <<rc, n>>, write_number(handles[k], rc[1], rc[2], n))

SpecOrder == InitOrder /\ [][NextOrder]_vars

\* The Chart operations alone.
InitChart == Session(MaxChartOps)

ChartHandles == 1..Len(chandles)
FreeChart(c) == ~charts[c].live /\ \A b \in 1..(c - 1) : charts[b].live

NextChart ==
  \/ \E c \in ChartIds, t \in ChartTypes :
       FreeChart(c) /\ ChartCall("new", 0, 0, new(c, t))
  \/ \E k \in ChartHandles, n \in ChartNames :
       ChartCall("set_name", k, 0, Chart_set_name(chandles[k], n))
  \/ \E k \in ChartHandles, w \in ChartWidths :
       ChartCall("set_width", k, 0, Chart_set_width(chandles[k], w))
  \/ \E k \in ChartHandles :
       \E j \in ChartHandles \ {k} :
       \E o \in combine(chandles[k], chandles[j]) : ChartCall("combine", k, j, o)

SpecChart == InitChart /\ [][NextChart]_vars

\* name and set_name alone, with names at both sides of the length limit.
InitName == Session(MaxNameOps)

LimitNames ==
  {<<>>, <<"A">>, Chars(MAX_SHEETNAME_LEN, "x"), Chars(MAX_SHEETNAME_LEN + 1, "x"),
   Chars(MAX_SHEETNAME_LEN + 2, "x")}

NextName ==
  \/ \E k \in Handles : Call("name", k, <<>>, name(handles[k]))
  \/ \E k \in Handles, n \in LimitNames :
       Call("set_name", k, <<n>>, set_name(handles[k], n))

SpecName == InitName /\ [][NextName]_vars

\* The writes that take a host value: generic values and dates, with and
\* without a format.
InitValue == Session(MaxValueOps)

NextValue ==
  \/ \E k \in Handles, a \in WriteArgs :
       Call("write", k, a, write(handles[k], a[1][1], a[1][2], a[2]))
  \/ \E k \in Handles, a \in WriteArgs, f \in Formats :
       Call("write_with_format", k, <<a[1], a[2], f>>,
            write_with_format(handles[k], a[1][1], a[1][2], a[2], f))
  \/ \E k \in Handles, a \in RowArgs :
       Call("write_row", k, a, write_row(handles[k], a[1][1], a[1][2], a[2]))
  \/ \E k \in Handles, a \in ColArgs :
       Call("write_column", k, a, write_column(handles[k], a[1][1], a[1][2], a[2]))
  \/ \E k \in Handles, a \in DateArgs :
       Call("write_datetime", k, a, write_datetime(handles[k], a[1][1], a[1][2], a[2]))
  \/ \E k \in Handles, a \in DateArgs, f \in Formats :
       Call("write_datetime_with_format", k, <<a[1], a[2], f>>,
            write_datetime_with_format(handles[k], a[1][1], a[1][2], a[2], f))

SpecValue == InitValue /\ [][NextValue]_vars

\* Conditional-format rule objects built by the host and attached to a sheet.
InitDataBar == Session(MaxRuleOps)

FreeRule(r) == cformats[r].class = ""
IsDataBar(r) == cformats[r].class = "ConditionalFormatDataBar"
IsFormula(r) == cformats[r].class = "ConditionalFormatFormula"

NextDataBar ==
  \/ \E r \in RuleIds : FreeRule(r) /\ RuleCall("DataBar_new", r, ConditionalFormatDataBar_new, r)
  \/ \E r \in RuleIds : FreeRule(r) /\ RuleCall("Formula_new", r, ConditionalFormatFormula_new, r)
  \/ \E r \in RuleIds, t \in BoundTypes, v \in BoundValues :
       IsDataBar(r) /\ RuleCall("set_minimum", r, set_minimum(cformats[r], t, v), Unit)
  \/ \E r \in RuleIds, t \in BoundTypes, v \in BoundValues :
       IsDataBar(r) /\ RuleCall("set_maximum", r, set_maximum(cformats[r], t, v), Unit)
  \/ \E r \in RuleIds, c \in Colors :
       IsDataBar(r) /\ RuleCall("set_fill_color", r, set_fill_color(cformats[r], c), Unit)
  \/ \E r \in RuleIds, c \in Colors :
       IsDataBar(r) /\ RuleCall("set_border_color", r, set_border_color(cformats[r], c), Unit)
  \/ \E r \in RuleIds, f \in FormulaRules :
       IsFormula(r) /\ RuleCall("set_rule", r,
                                 ConditionalFormatFormula_set_rule(cformats[r], f), Unit)
  \/ \E k \in Handles, a \in BarRanges, r \in RuleIds :
       /\ ~FreeRule(r)
       /\ Call("addConditionalFormat", k, <<a, cformats[r]>>,
               addConditionalFormat(handles[k], a[1], a[2], a[3], a[4], cformats[r]))

SpecDataBar == InitDataBar /\ [][NextDataBar]_vars

\* The mutators that cannot fail, one or more of each entity.
InitMutators == Session(MaxMutatorOps)

NextMutators ==
  \/ \E k \in Handles, h \in Headers :
       Call("set_header", k, <<h>>, set_header(handles[k], h))
  \/ \E c \in ChartIds, t \in ChartTypes :
       FreeChart(c) /\ ChartCall("new", 0, 0, new(c, t))
  \/ \E k \in ChartHandles, n \in ChartNames :
       ChartCall("set_name", k, 0, Chart_set_name(chandles[k], n))
  \/ \E k \in ChartHandles, w \in ChartWidths :
       ChartCall("set_width", k, 0, Chart_set_width(chandles[k], w))
  \/ \E r \in RuleIds : FreeRule(r) /\ RuleCall("DataBar_new", r, ConditionalFormatDataBar_new, r)
  \/ \E r \in RuleIds : FreeRule(r) /\ RuleCall("Formula_new", r, ConditionalFormatFormula_new, r)
  \/ \E r \in RuleIds, t \in BoundTypes, v \in BoundValues :
       IsDataBar(r) /\ RuleCall("set_minimum", r, set_minimum(cformats[r], t, v), Unit)
  \/ \E r \in RuleIds, c \in Colors :
       IsDataBar(r) /\ RuleCall("set_fill_color", r, set_fill_color(cformats[r], c), Unit)
  \/ \E r \in RuleIds, f \in FormulaRules :
       IsFormula(r) /\ RuleCall("set_rule", r,
                                 ConditionalFormatFormula_set_rule(cformats[r], f), Unit)

SpecMutators == InitMutators /\ [][NextMutators]_vars

\* The module from before its instantiation: no object exists yet, and the
\* exports can be called only once the module is instantiated.
InitStart ==
  /\ docs = [d \in DocIds |-> NoDoc]
  /\ mutex = [d \in DocIds |-> "unlocked"]
  /\ handles = <<>>
  /\ res = NoCall
  /\ prev = docs
  /\ left = MaxStartOps
  /\ writes = <<>>
  /\ charts = [c \in ChartIds |-> NoChart]
  /\ cmutex = [c \in ChartIds |-> "unlocked"]
  /\ chandles = <<>>
  /\ cres = NoChartCall
  /\ series = [x \in SeriesIds |-> NoSeries]
  /\ cformats = [r \in RuleIds |-> NoRule]
  /\ cfres = NoRuleCall
  /\ wasm = NotInstantiated
  /\ threads = [t \in Callers |-> Idle]

NextStart ==
  \/ Instantiate
  \/ StartCall
  \/ \E c \in ChartIds, t \in ChartTypes :
       wasm.instantiated /\ FreeChart(c) /\ ChartCall("new", 0, 0, new(c, t))
  \/ \E k \in ChartHandles, n \in ChartNames :
       wasm.instantiated /\ ChartCall("set_name", k, 0, Chart_set_name(chandles[k], n))
  \/ \E k \in ChartHandles, w \in ChartWidths :
       wasm.instantiated /\ ChartCall("set_width", k, 0, Chart_set_width(chandles[k], w))

SpecStart == InitStart /\ [][NextStart]_vars

\* autofilter, with name and write_number to use the Document afterwards.
InitFilter == Session(MaxFilterOps)

NextFilter ==
  \/ \E k \in Handles, r \in Ranges :
       Call("autofilter", k, <<r>>, autofilter(handles[k], r[1], r[2], r[3], r[4]))
  \/ \E k \in Handles : Call("name", k, <<>>, name(handles[k]))
  \/ \E k \in Handles, rc \in EdgeCells, n \in Numbers :
       Call("write_number", k, <<rc, n>>, write_number(handles[k], rc[1], rc[2], n))

SpecFilter == InitFilter /\ [][NextFilter]_vars

\* Two callers on shared charts: every chart and series slot holds an object
\* the host constructed before, and each caller issues Chart calls and
\* insert_chart on them.
InitThreads ==
  /\ docs = [d \in DocIds |-> IF d = 1 THEN NewWorkbook ELSE NoDoc]
  /\ mutex = [d \in DocIds |-> "unlocked"]
  /\ handles = <<Worksheet(1, 0)>>
  /\ res = NoCall
  /\ prev = docs
  /\ left = MaxThreadOps
  /\ writes = <<>>
  /\ charts = [c \in ChartIds |-> xlsx_Chart_new("Line")]
  /\ cmutex = [c \in ChartIds |-> "unlocked"]
  /\ chandles = [c \in ChartIds |-> Chart(c)]
  /\ cres = NoChartCall
  /\ series = [x \in SeriesIds |-> xlsx_ChartSeries_new]
  /\ cformats = [r \in RuleIds |-> NoRule]
  /\ cfres = NoRuleCall
  /\ wasm = start(NotInstantiated)
  /\ threads = [t \in Callers |-> Idle]

NextThreads ==
  \/ \E t \in Callers, a \in ChartIds :
       \E b \in ChartIds \ {a} : Begin(t, [op |-> "combine", a |-> a, b |-> b, arg |-> <<>>])
  \/ \E t \in Callers, a \in ChartIds :
       Begin(t, [op |-> "push_series", a |-> a, b |-> 1, arg |-> <<>>])
  \/ \E t \in Callers, a \in ChartIds, n \in ChartNames :
       Begin(t, [op |-> "set_name", a |-> a, b |-> 0, arg |-> n])
  \/ \E t \in Callers, a \in ChartIds :
       Begin(t, [op |-> "insert_chart", a |-> a, b |-> 1, arg |-> <<0, 0>>])
  \/ \E t \in Callers : Step(t)

SpecThreads == InitThreads /\ [][NextThreads]_vars

\* Two callers on handles of one chart: the host holds two handles of chart
\* 1 and one of the last chart, and each caller issues set_name and
\* set_width through them.
InitRace ==
  /\ docs = [d \in DocIds |-> IF d = 1 THEN NewWorkbook ELSE NoDoc]
  /\ mutex = [d \in DocIds |-> "unlocked"]
  /\ handles = <<Worksheet(1, 0)>>
  /\ res = NoCall
  /\ prev = docs
  /\ left = MaxRaceOps
  /\ writes = <<>>
  /\ charts = [c \in ChartIds |-> xlsx_Chart_new("Line")]
  /\ cmutex = [c \in ChartIds |-> "unlocked"]
  /\ chandles = <<Chart(1), Chart(1), Chart(MaxCharts)>>
  /\ cres = NoChartCall
  /\ series = [x \in SeriesIds |-> xlsx_ChartSeries_new]
  /\ cformats = [r \in RuleIds |-> NoRule]
  /\ cfres = NoRuleCall
  /\ wasm = start(NotInstantiated)
  /\ threads = [t \in Callers |-> Idle]

NextRace ==
  \/ \E t \in Callers, k \in ChartHandles, n \in RaceNames :
       Begin(t, [op |-> "set_name", a |-> chandles[k].inner, b |-> k, arg |-> n])
  \/ \E t \in Callers, k \in ChartHandles, w \in ChartWidths :
       Begin(t, [op |-> "set_width", a |-> chandles[k].inner, b |-> k, arg |-> w])
  \/ \E t \in Callers : Step(t)

SpecRace == InitRace /\ [][NextRace]_vars

\* Rule and Format objects attached to a sheet and changed afterwards.
InitCopy == Session(MaxCopyOps)

IsFormat(r) == cformats[r].class = "Format"

NextCopy ==
  \/ \E r \in RuleIds : FreeRule(r) /\ RuleCall("Formula_new", r, ConditionalFormatFormula_new, r)
  \/ \E r \in RuleIds : FreeRule(r) /\ RuleCall("Format_new", r, Format_new, r)
  \/ \E r \in RuleIds, f \in FormulaRules :
       IsFormula(r) /\ RuleCall("set_rule", r,
                                 ConditionalFormatFormula_set_rule(cformats[r], f), Unit)
  \/ \E r \in RuleIds :
       IsFormula(r) /\ RuleCall("set_stop_if_true", r,
                                 ConditionalFormatFormula_set_stop_if_true(cformats[r], TRUE), Unit)
  \/ \E r \in RuleIds : IsFormat(r) /\ RuleCall("Format_set_bold", r, Format_set_bold(cformats[r]), r)
  \/ \E a \in BarRanges, r \in RuleIds :
       /\ ~FreeRule(r)
       /\ Call("addConditionalFormat", 1, <<a, cformats[r], r>>,
               addConditionalFormat(handles[1], a[1], a[2], a[3], a[4], cformats[r]))
  \/ \E rc \in OneCell, l \in Links :
       Call("writeUrlWithOptions", 1, <<rc, NoRule, 0>>,
            writeUrlWithOptions(handles[1], rc[1], rc[2], l, "", "", NoRule))
  \/ \E rc \in OneCell, l \in Links, r \in RuleIds :
       /\ IsFormat(r)
       /\ MoveCall("writeUrlWithOptions", 1, <<rc, cformats[r], r>>,
                   writeUrlWithOptions(handles[1], rc[1], rc[2], l, "", "", cformats[r]), r)

SpecCopy == InitCopy /\ [][NextCopy]_vars

\* The Chart constructors alone, each under its exported name.
InitCtor == Session(MaxCtorOps)

NextCtor ==
  \/ \E c \in ChartIds, t \in TypeSelector :
       FreeChart(c) /\ ChartCall("new", 0, 0, new(c, t))
  \/ \E c \in ChartIds : FreeChart(c) /\ ChartCall("newArea", 0, 0, new_area(c))
  \/ \E c \in ChartIds : FreeChart(c) /\ ChartCall("newBar", 0, 0, new_bar(c))
  \/ \E c \in ChartIds : FreeChart(c) /\ ChartCall("newColumn", 0, 0, new_column(c))
  \/ \E c \in ChartIds : FreeChart(c) /\ ChartCall("newColumnStacked", 0, 0, new_doughnut(c))
  \/ \E c \in ChartIds : FreeChart(c) /\ ChartCall("newLine", 0, 0, new_line(c))
  \/ \E c \in ChartIds : FreeChart(c) /\ ChartCall("newPie", 0, 0, new_pie(c))
  \/ \E c \in ChartIds : FreeChart(c) /\ ChartCall("newRadar", 0, 0, new_radar(c))
  \/ \E c \in ChartIds : FreeChart(c) /\ ChartCall("newScatter", 0, 0, new_scatter(c))
  \/ \E c \in ChartIds : FreeChart(c) /\ ChartCall("newStock", 0, 0, new_stock(c))

SpecCtor == InitCtor /\ [][NextCtor]_vars

\* Charts with their series, and their insertion into a sheet.
InitAttach == Session(MaxAttachOps)

FreeSeries(x) == ~series[x].live /\ \A b \in 1..(x - 1) : series[b].live
LiveSeries == {x \in SeriesIds : series[x].live}

NextAttach ==
  \/ \E c \in ChartIds : FreeChart(c) /\ ChartCall("new", 0, 0, new(c, "Line"))
  \/ \E x \in SeriesIds : FreeSeries(x) /\ SeriesCall("ChartSeries_new", x, ChartSeries_new(x))
  \/ \E x \in LiveSeries, n \in SeriesNames :
       SeriesCall("ChartSeries_set_name", x, ChartSeries_set_name(ChartSeries(x), n))
  \/ \E k \in ChartHandles, x \in LiveSeries :
       ChartCall("push_series", k, x, push_series(chandles[k], ChartSeries(x)))
  \/ \E k \in ChartHandles, n \in ChartNames :
       ChartCall("set_name", k, 0, Chart_set_name(chandles[k], n))
  \/ \E k \in ChartHandles :
       \E j \in ChartHandles \ {k} :
       \E o \in combine(chandles[k], chandles[j]) : ChartCall("combine", k, j, o)
  \/ \E k \in Handles, rc \in EdgeCells, j \in ChartHandles :
       Call("insert_chart", k, <<rc, chandles[j]>>,
            insert_chart(handles[k], rc[1], rc[2], chandles[j]))
  \/ \E k \in Handles, rc \in EdgeCells, j \in ChartHandles, off \in Offsets :
       Call("insert_chart_with_offset", k, <<rc, chandles[j], off>>,
            insert_chart_with_offset(handles[k], rc[1], rc[2], chandles[j], off[1], off[2]))

SpecAttach == InitAttach /\ [][NextAttach]_vars

\* Every operation of a Chart handle that returns a handle.
InitAlias == Session(MaxAliasOps)

NextAlias ==
  \/ \E c \in ChartIds : FreeChart(c) /\ ChartCall("new", 0, 0, new(c, "Line"))
  \/ \E x \in SeriesIds : FreeSeries(x) /\ SeriesCall("ChartSeries_new", x, ChartSeries_new(x))
  \/ \E k \in ChartHandles, x \in LiveSeries :
       ChartCall("push_series", k, x, push_series(chandles[k], ChartSeries(x)))
  \/ \E k \in ChartHandles, n \in ChartNames :
       ChartCall("set_name", k, 0, Chart_set_name(chandles[k], n))
  \/ \E k \in ChartHandles, a \in AltTexts :
       ChartCall("set_alt_text", k, 0, Chart_set_alt_text(chandles[k], a))
  \/ \E k \in ChartHandles, w \in ChartWidths :
       ChartCall("set_width", k, 0, Chart_set_width(chandles[k], w))
  \/ \E k \in ChartHandles, h \in ChartHeights :
       ChartCall("set_height", k, 0, Chart_set_height(chandles[k], h))
  \/ \E k \in ChartHandles :
       \E j \in ChartHandles \ {k} :
       \E o \in combine(chandles[k], chandles[j]) : ChartCall("combine", k, j, o)
  \/ \E k \in ChartHandles : ComponentCall("title", k, title(chandles[k]))
  \/ \E k \in ChartHandles : ComponentCall("legend", k, legend(chandles[k]))
  \/ \E k \in ChartHandles : ComponentCall("x_axis", k, x_axis(chandles[k]))
  \/ \E k \in ChartHandles : ComponentCall("y_axis", k, y_axis(chandles[k]))
  \/ \E k \in ChartHandles : ComponentCall("x2_axis", k, x2_axis(chandles[k]))
  \/ \E k \in ChartHandles : ComponentCall("y2_axis", k, y2_axis(chandles[k]))

SpecAlias == InitAlias /\ [][NextAlias]_vars

\* Worksheet operations that take sub-object guards: none, one and two.
InitLocks == Session(MaxLockOps)

NextLocks ==
  \/ \E c \in ChartIds : FreeChart(c) /\ ChartCall("new", 0, 0, new(c, "Line"))
  \/ \E k \in Handles, rc \in EdgeCells, n \in Numbers :
       Call("write_number", k, <<rc, n>>, write_number(handles[k], rc[1], rc[2], n))
  \/ \E k \in Handles, rc \in EdgeCells, d \in DateSerials, f \in Formats :
       Call("write_date_with_format", k, <<rc, d, f>>,
            write_date_with_format(handles[k], rc[1], rc[2], d, f))
  \/ \E k \in Handles, r \in Ranges, f \in Formats, bf \in BorderFormats :
       Call("set_range_format_with_border", k, <<r, f, bf>>,
            set_range_format_with_border(handles[k], r[1], r[2], r[3], r[4], f, bf))
  \/ \E k \in Handles, rc \in EdgeCells, j \in ChartHandles :
       Call("insert_chart", k, <<rc, chandles[j]>>,
            insert_chart(handles[k], rc[1], rc[2], chandles[j]))

SpecLocks == InitLocks /\ [][NextLocks]_vars

\* The four dynamic-formula writes.
InitDynamic == Session(MaxDynamicOps)

NextDynamic ==
  \/ \E k \in Handles, r \in Ranges, fm \in DynamicFormulas :
       Call("write_dynamic_array_formula", k, <<r, fm>>,
            write_dynamic_array_formula(handles[k], r[1], r[2], r[3], r[4], fm))
  \/ \E k \in Handles, r \in Ranges, fm \in DynamicFormulas, f \in Formats :
       Call("write_dynamic_array_formula_with_format", k, <<r, fm, f>>,
            write_dynamic_array_formula_with_format(handles[k], r[1], r[2], r[3], r[4], fm, f))
  \/ \E k \in Handles, r \in Ranges, fm \in DynamicFormulas :
       Call("write_dyncmic_formula", k, <<r, fm>>,
            write_dyncmic_formula(handles[k], r[1], r[2], r[3], r[4], fm))
  \/ \E k \in Handles, r \in Ranges, fm \in DynamicFormulas, f \in Formats :
       Call("write_dynamic_formula_with_format", k, <<r, fm, f>>,
            write_dynamic_formula_with_format(handles[k], r[1], r[2], r[3], r[4], fm, f))
  \/ \E k \in Handles, rc \in EdgeCells, n \in Numbers :
       Call("write_number", k, <<rc, n>>, write_number(handles[k], rc[1], rc[2], n))

SpecDynamic == InitDynamic /\ [][NextDynamic]_vars

\* ================================================================== claims
ResolvesIn(store, h) == h.index < Len(store[h.workbook].sheets)

\* the Document mutex is held at event i of a handler's trace
HeldAt(t, i) ==
  \E j \in 1..(i - 1) : t[j] = "lock" /\ \A m \in j..i : t[m] # "unlock"

C2_EngineErrorReturned ==
  (res.op # "" /\ res.eng # "") => (res.status = "err" /\ res.err = res.eng)

\* C3: a Worksheet operation that returns an error leaves the Document as it
\* was immediately before the call.
C3_ErrorLeavesDocument ==
  res.status = "err" => docs = prev

\* C4: an operation that returns (Ok or Err) took the Document lock first,
\* did all its work under it, took it once, and has released it; and after
\* an operation returned an error, the next operation, if valid (its handle
\* resolves and the engine accepts it), succeeds, through whichever handle.
C4_ReleasedOnReturn ==
  res.status \in {"ok", "err"} =>
    /\ Len(res.trace) >= 2
    /\ res.trace[1] = "lock"
    /\ res.trace[Len(res.trace)] = "unlock"
    /\ \A i \in 2..(Len(res.trace) - 1) :
         res.trace[i] \notin {"lock", "unlock"} /\ HeldAt(res.trace, i)
    /\ mutex[res.recv.workbook] = "unlocked"

C4_ValidAfterError ==
  (res.status = "err" /\ left' < left /\ ResolvesIn(docs, res'.recv)
     /\ res'.eng = "" /\ res'.err = "")
    => res'.status = "ok"

\* C4: the lock is acquired and released on every return path, and a valid
\* operation that follows an error succeeds.
C4_LockDiscipline == []C4_ReleasedOnReturn /\ [][C4_ValidAfterError]_vars

\* C4 witness: the first call was a write_number that returned an error, and
\* the second call, another operation, succeeded.
C4_Witness ==
  /\ left = MaxOps - 2
  /\ Len(writes) = 1 /\ writes[1].status = "err"
  /\ res.op = "set_name" /\ res.status = "ok"

\* C5: the classification of the host value does not take place while the
\* Document lock is held.
C5_ClassifyOutsideLock ==
  \A i \in 1..Len(res.trace) : res.trace[i] = "classify" => ~HeldAt(res.trace, i)

\* C6: chart.combine(other) completes and leaves every Chart lock released,
\* for every pair of Chart handles, also when other aliases the receiver.
C6_CombineCompletes ==
  cres.op = "combine" =>
    (cres.status = "ok" /\ \A c \in ChartIds : cmutex[c] = "unlocked")

\* C7: the handles of one session share one Document.  No call brings a
\* second Document into being, every handle held or returned names the one
\* Document, and after a successful set_name(n) through one handle, name()
\* through every handle with the same index returns n.
C7_OneDocument ==
  /\ \A d \in DocIds : docs[d].live <=> d = 1
  /\ \A k \in Handles : handles[k].workbook = 1
  /\ res.ret # NoHandle => res.ret.workbook = 1
  /\ (res.op = "set_name" /\ res.status = "ok") =>
       \A k \in Handles :
         handles[k].index = res.recv.index =>
           (name(handles[k]).status = "ok" /\ name(handles[k]).val = res.args[1])

C7_Witness ==
  /\ res.op = "set_name" /\ res.status = "ok" /\ res.via = 1
  /\ res.args[1] = <<"A">>
  /\ handles[2].index = res.recv.index
  /\ name(handles[2]).val = <<"A">>

\* the mutating operations of Worksheet (all of the modelled ones but name)
Mutators ==
  {"set_name", "write_string", "write_number", "write", "write_datetime",
   "write_column", "write_column_matrix", "write_row", "write_row_matrix",
   "set_column_range_width", "merge_range", "add_table", "add_conditional_format"}

\* C8: a Worksheet mutating operation that succeeds returns a handle with
\* the same Document and the same index as the receiver.
C8_ReturnsSameSheet ==
  (res.op \in Mutators /\ res.status = "ok") =>
    (res.ret.workbook = res.recv.workbook /\ res.ret.index = res.recv.index)

C8_Witness ==
  /\ res.op = "write_string" /\ res.status = "ok"
  /\ res.recv = Worksheet(1, NumSheets - 1)
  /\ res.ret = Worksheet(1, NumSheets - 1)
  /\ handles[res.via] = res.ret

\* the outcome of the call op(args) issued through the handle self
Apply(op, self, a) ==
  CASE op = "name" -> name(self)
    [] op = "set_name" -> set_name(self, a[1])
    [] op = "write_string" -> write_string(self, a[1][1], a[1][2], a[2])
    [] op = "write_number" -> write_number(self, a[1][1], a[1][2], a[2])
    [] op = "write" -> write(self, a[1][1], a[1][2], a[2])
    [] op = "write_datetime" -> write_datetime(self, a[1][1], a[1][2], a[2])
    [] op = "write_column" -> write_column(self, a[1][1], a[1][2], a[2])
    [] op = "write_column_matrix" -> write_column_matrix(self, a[1][1], a[1][2], a[2])
    [] op = "write_row" -> write_row(self, a[1][1], a[1][2], a[2])
    [] op = "write_row_matrix" -> write_row_matrix(self, a[1][1], a[1][2], a[2])
    [] op = "set_column_range_width" -> set_column_range_width(self, a[1][1], a[1][2], a[2])
    [] op = "merge_range" -> merge_range(self, a[1][1], a[1][2], a[1][3], a[1][4], a[2], a[3])
    [] op = "add_table" -> add_table(self, a[1][1], a[1][2], a[1][3], a[1][4], a[2])
    [] op = "add_conditional_format" ->
         add_conditional_format(self, a[1][1], a[1][2], a[1][3], a[1][4], a[2])

\* the call just made, had it been issued through the handle in slot j
SameThrough(j) ==
  Apply(res'.op, handles[j], res'.args) =
    [docs |-> docs', mutex |-> mutex', status |-> res'.status, err |-> res'.err,
     ret |-> res'.ret, val |-> res'.val, trace |-> res'.trace, eng |-> res'.eng]

\* C9: two handles with the same index on the same Document are
\* interchangeable.  The two handles the host resolved for the first sheet
\* stay handles of the same sheet whatever is called and whichever returned
\* handle the host goes on with, and every call issued through one handle
\* has the result and leaves the Document it would have had and left when
\* issued through any other handle with the same index.
C9_StillSameSheet ==
  handles[1].workbook = handles[2].workbook /\ handles[1].index = handles[2].index

C9_EitherHandle ==
  left' < left =>
    \A j \in Handles :
      (handles[j].workbook = res'.recv.workbook /\ handles[j].index = res'.recv.index)
        => SameThrough(j)

WritesTo(h, rc) ==
  SelectSeq(writes, LAMBDA w : w.status = "ok" /\ w.recv = h /\ w.args[1] = rc)

\* C10: writes take effect in issue order.  At every moment each sheet
\* holds, in every cell, the number of the last successful write issued to
\* that cell of that sheet, and nothing in a cell no write was issued to.
C10_IssueOrder ==
  \A i \in 1..NumSheets :
    LET h == Worksheet(1, i - 1)
        cells == docs[1].sheets[i].cells IN
    /\ \A rc \in DOMAIN cells : WritesTo(h, rc) # <<>>
    /\ \A rc \in OrderCells :
         LET w == WritesTo(h, rc) IN
         w # <<>> => (rc \in DOMAIN cells /\ cells[rc].t = "Number"
                       /\ cells[rc].n = w[Len(w)].args[2])

\* (0,0), (0,1), (1,0) written in that order, then (0,0) written again
C10_Witness ==
  /\ Len(writes) = 4
  /\ \A i \in 1..4 : writes[i].status = "ok" /\ writes[i].recv = Worksheet(1, 0)
  /\ writes[1].args = <<<<0, 0>>, 1>>
  /\ writes[2].args = <<<<0, 1>>, 1>>
  /\ writes[3].args = <<<<1, 0>>, 1>>
  /\ writes[4].args = <<<<0, 0>>, 2>>
  /\ DOMAIN docs[1].sheets[1].cells = OrderCells
  /\ docs[1].sheets[1].cells[<<0, 0>>].n = 2
  /\ docs[1].sheets[1].cells[<<0, 1>>].n = 1
  /\ docs[1].sheets[1].cells[<<1, 0>>].n = 1

\* the step is a call the host issued
Issued == left' < left
\* the step is a Worksheet call / a Chart or ChartSeries call
SheetStep == Issued /\ res'.at = left
ChartStep == Issued /\ cres'.at = left

C11_PushAppends ==
  (ChartStep /\ cres'.op = "push_series" /\ cres'.status = "ok") =>
    LET c == chandles[cres'.via].inner IN
    /\ charts'[c] = [charts[c] EXCEPT !.series = Append(@, series[cres'.other])]
    /\ \A b \in ChartIds \ {c} : charts'[b] = charts[b]
    /\ series' = series
    /\ cres'.ret = Chart(c)

C11_SeriesCallLeavesCharts ==
  (ChartStep /\ cres'.op \in {"ChartSeries_new", "ChartSeries_set_name"}) => charts' = charts

\* C11: push_series appends to the chart the value the series has at the
\* call, leaves the series and every other chart as they were and returns a
\* handle on the receiver's chart; a later call on the series leaves the
\* series stored in the chart as it was.
C11_PushSeriesSnapshot == [][C11_PushAppends /\ C11_SeriesCallLeavesCharts]_vars

\* a series was pushed and renamed afterwards: the chart holds the old value
C11_Witness ==
  /\ cres.op = "ChartSeries_set_name" /\ cres.other = 1
  /\ series[1].name = "north"
  /\ Len(charts[1].series) = 1
  /\ charts[1].series[1] = xlsx_ChartSeries_new

C12_CombineStores ==
  (ChartStep /\ cres'.op = "combine") =>
    LET c == chandles[cres'.via].inner
        a == chandles[cres'.other].inner IN
    /\ \A b \in ChartIds \ {c} : charts'[b] = charts[b]
    /\ cres'.status = "ok" =>
         /\ a # c
         /\ charts'[c] = [charts[c] EXCEPT !.combined = <<charts[a]>>]
         /\ cres'.ret = Chart(c)
    /\ cres'.status # "ok" => charts' = charts

C12_ThroughReturned ==
  (ChartStep /\ cres.op = "combine" /\ cres.status = "ok" /\ cres.at = left + 1
     /\ cres'.op \in {"set_name", "set_width"} /\ cres'.status = "ok"
     /\ chandles[cres'.via] = cres.ret) =>
    LET c == chandles[cres.via].inner
        a == chandles[cres.other].inner IN
    /\ charts'[c] \in {[charts[c] EXCEPT !.name = n] : n \in ChartNames}
                      \cup {[charts[c] EXCEPT !.width = w] : w \in ChartWidths}
    /\ charts'[a] = charts[a]

\* C12: combine changes the receiver's chart only, which then holds the
\* value the argument's chart has at the call; the argument's chart stays
\* as it was; the returned handle is a handle on the receiver's chart, so a
\* call through it changes the receiver's chart and not the argument's.
C12_CombineFrame == [][C12_CombineStores /\ C12_ThroughReturned]_vars

\* two charts combined, and the first one renamed through the handle combine
\* returned
C12_Witness ==
  /\ cres.op = "set_name" /\ cres.status = "ok" /\ cres.via = 3
  /\ Len(chandles) = 3 /\ chandles[3] = Chart(1) /\ chandles[2] = Chart(2)
  /\ charts[1].name = "sales"
  /\ charts[1].combined = <<charts[2]>>
  /\ charts[2].name = "" /\ charts[2].combined = <<>>

Inserts == {"insert_chart", "insert_chart_with_offset"}

C13_InsertEmbedsValue ==
  (SheetStep /\ res'.op \in Inserts) =>
    /\ charts' = charts
    /\ res'.status = "ok" =>
         LET h == res'.recv
             e == docs'[h.workbook].sheets[h.index + 1].charts[res'.args[1]] IN
         e.chart = charts[res'.args[2].inner]

C13_ChartCallLeavesEmbedded ==
  ChartStep => docs' = docs

C13_StaysMutable ==
  (ChartStep /\ res.op \in Inserts /\ res.status = "ok" /\ res.at = left + 1
     /\ cres'.op = "set_name" /\ chandles[cres'.via] = res.args[2]) =>
    /\ cres'.status = "ok"
    /\ charts'[res.args[2].inner].name \in ChartNames

\* C13: insert_chart and insert_chart_with_offset store in the sheet the
\* value the chart has at the call and leave the chart as it was; every
\* later Chart or ChartSeries call leaves what the sheets hold as it was;
\* and the chart can still be changed through its handle after the insertion.
C13_InsertCopies ==
  [][C13_InsertEmbedsValue /\ C13_ChartCallLeavesEmbedded /\ C13_StaysMutable]_vars

\* a chart inserted at (0,0) and renamed afterwards: the sheet holds the
\* chart as it was at the insertion
C13_Witness ==
  /\ cres.op = "set_name" /\ cres.status = "ok" /\ cres.at = left + 1
  /\ charts[1].name = "sales"
  /\ <<0, 0>> \in DOMAIN docs[1].sheets[1].charts
  /\ docs[1].sheets[1].charts[<<0, 0>>].chart = [charts[1] EXCEPT !.name = ""]
  /\ Len(charts[1].series) = 1

\* the chart type an exported constructor name denotes
Denotes(js_name) ==
  CASE js_name = "newArea" -> "Area"
    [] js_name = "newBar" -> "Bar"
    [] js_name = "newColumn" -> "Column"
    [] js_name = "newColumnStacked" -> "ColumnStacked"
    [] js_name = "newLine" -> "Line"
    [] js_name = "newPie" -> "Pie"
    [] js_name = "newRadar" -> "Radar"
    [] js_name = "newScatter" -> "Scatter"
    [] js_name = "newStock" -> "Stock"

NamedConstructors ==
  {"newArea", "newBar", "newColumn", "newColumnStacked", "newLine", "newPie", "newRadar",
   "newScatter", "newStock"}

\* C14: every named constructor the host sees creates a chart of the type
\* its exported name denotes (and so every type of the type selector has a
\* constructor that creates it).
C14_NameDenotesType ==
  (cres.op \in NamedConstructors /\ cres.status = "ok") =>
    charts[cres.ret.inner].chart_type = Denotes(cres.op)

\* the range <<fr, fc, lr, lc>> shares a cell with a range merged before
OverlapsMerged(sheet, r) ==
  \E i \in 1..Len(sheet.merged_ranges) :
    LET q == sheet.merged_ranges[i] IN
    r[1] <= q[3] /\ q[1] <= r[3] /\ r[2] <= q[4] /\ q[2] <= r[4]

\* C15: merge_range on a single cell fails with MergeRangeSingleCell, on a
\* range that overlaps a merged range with MergeRangeOverlaps, and either
\* failure leaves the merged ranges and the cells of the sheet as they were.
C15_MergeRangeErrors ==
  (res.op = "merge_range" /\ res.status # "panic") =>
    LET r == res.args[1]
        old == prev[res.recv.workbook].sheets[res.recv.index + 1]
        now == docs[res.recv.workbook].sheets[res.recv.index + 1]
        same == now.merged_ranges = old.merged_ranges /\ now.cells = old.cells IN
    (InGrid(r[1], r[2]) /\ InGrid(r[3], r[4]) /\ r[1] <= r[3] /\ r[2] <= r[4]) =>
      /\ (r[1] = r[3] /\ r[2] = r[4]) => (res.err = "MergeRangeSingleCell" /\ same)
      /\ (~(r[1] = r[3] /\ r[2] = r[4]) /\ OverlapsMerged(old, r))
           => (res.err = "MergeRangeOverlaps" /\ same)

\* C16: set_name with an empty name fails with SheetnameCannotBeBlank and
\* with a name of 32 or more characters with SheetnameLengthExceeded; after
\* a failed set_name, name() returns the name the sheet had before, and
\* after a successful set_name(n) it returns n.
C16_SetNameValidation ==
  (res.op = "set_name" /\ res.status # "panic") =>
    LET n == res.args[1]
        old == prev[res.recv.workbook].sheets[res.recv.index + 1].name
        seen == name(res.recv) IN
    /\ Len(n) = 0 => (res.status = "err" /\ res.err = "SheetnameCannotBeBlank")
    /\ Len(n) >= 32 => (res.status = "err" /\ res.err = "SheetnameLengthExceeded")
    /\ res.status = "err" => (seen.status = "ok" /\ seen.val = old)
    /\ res.status = "ok" => (seen.status = "ok" /\ seen.val = n)

\* a sheet renamed to "A", then a 32-character name refused: the name is "A"
C16_Witness ==
  /\ res.op = "set_name" /\ res.err = "SheetnameLengthExceeded"
  /\ Len(res.args[1]) = 32
  /\ name(res.recv).val = <<"A">>

\* C17: set_name with a name another sheet of the Document carries fails, so
\* no two sheets of a Document have the same name.
C17_NoDuplicateNames ==
  /\ (res.op = "set_name" /\ res.status # "panic") =>
       LET sheets == prev[res.recv.workbook].sheets IN
       (\E i \in 1..Len(sheets) : i # res.recv.index + 1 /\ sheets[i].name = res.args[1])
         => res.status = "err"
  /\ \A d \in DocIds :
       \A i, j \in 1..Len(docs[d].sheets) :
         i # j => docs[d].sheets[i].name # docs[d].sheets[j].name

\* the call recorded in res passes a host value the classifier refuses: the
\* value of write / write_with_format, an element of write_row / write_column
PassesUnsupported ==
  \/ /\ res.op \in {"write", "write_with_format"}
     /\ ~classify(res.args[2]).ok
  \/ /\ res.op \in {"write_row", "write_column"}
     /\ \E i \in 1..Len(res.args[2]) : ~classify(res.args[2][i]).ok

\* C18: write / write_with_format with a host value the classifier cannot
\* categorize, and write_row / write_column with an array holding such an
\* element, return UnsupportedValueType, make no engine call, and leave the
\* Document as it was: no element of the array is written.
C18_UnsupportedWritesNothing ==
  (PassesUnsupported /\ res.status # "panic") =>
    /\ res.status = "err" /\ res.err = "UnsupportedValueType"
    /\ \A i \in 1..Len(res.trace) : res.trace[i] # "engine"
    /\ docs = prev

\* a row whose first element is a number and whose second is unsupported is
\* refused on an empty sheet, and the cell of the first element stays empty
C18_Witness ==
  /\ res.op = "write_row" /\ res.args = <<<<0, 0>>, <<Num(1), Symbol>>>>
  /\ res.err = "UnsupportedValueType"
  /\ <<0, 0>> \notin DOMAIN docs[res.recv.workbook].sheets[res.recv.index + 1].cells

\* the call recorded in res is a date write through a handle that resolved,
\* to a cell inside the grid
DateWrite ==
  /\ res.op \in {"write_datetime", "write_datetime_with_format"}
  /\ res.status # "panic"
  /\ ResolvesIn(prev, res.recv)
  /\ InGrid(res.args[1][1], res.args[1][2])

\* the format a date write stores with the cell
DateFormat == IF res.op = "write_datetime" THEN "" ELSE res.args[3]

\* the call recorded in res stored the date dt in its cell and returned Ok
DateWritten(dt) ==
  LET now == docs[res.recv.workbook].sheets[res.recv.index + 1] IN
  /\ res.status = "ok"
  /\ res.args[1] \in DOMAIN now.cells
  /\ now.cells[res.args[1]] = Cell("DateTime", dt, "", DateFormat)

BuiltDataBar(o) ==
  /\ o.class = "ConditionalFormatDataBar"
  /\ o.inner.min = <<"Number", 0>>
  /\ o.inner.max = <<"Number", 100>>
  /\ o.inner.fill_color \in Colors

\* C20: a data-bar rule built with set_minimum(Number, 0),
\* set_maximum(Number, 100) and colours can be attached to a cell range of a
\* sheet, and the rule the Document then stores for that range carries
\* those bounds and colours.
C20_DataBarStored ==
  (/\ res.op = "addConditionalFormat" /\ res.status # "panic"
   /\ ResolvesIn(prev, res.recv) /\ BuiltDataBar(res.args[2])) =>
    /\ res.status = "ok"
    /\ [range |-> res.args[1], rule |-> res.args[2].inner]
         \in docs[res.recv.workbook].sheets[res.recv.index + 1].cfs

\* the setters of the rule classes
RuleMutators == {"set_minimum", "set_maximum", "set_fill_color", "set_border_color", "set_rule"}

\* C21: every mutator that cannot fail returns a handle to the object it
\* changed: set_header the sheet of its receiver, the Chart setters the chart
\* of their receiver, and the setters of the conditional-format rule classes
\* the rule they were called on.
C21_MutatorReturnsHandle ==
  /\ (res.op = "set_header" /\ ResolvesIn(prev, res.recv) /\ res.status # "panic")
       => (res.status = "ok" /\ res.ret = res.recv)
  /\ (cres.op \in {"set_name", "set_width"} /\ cres.status # "panic")
       => (cres.status = "ok" /\ cres.ret = chandles[cres.via])
  /\ cfres.op \in RuleMutators => cfres.ret = cfres.slot

\* the hook is installed once the module is instantiated, and never twice
C22_InstalledOnce ==
  /\ wasm.installs <= 1
  /\ wasm.instantiated => wasm.installs = 1
  /\ cres.op # "" => wasm.installs = 1

\* a run of start() on the instantiated module changes only the run count
C22_LaterStartIsNoOp ==
  wasm.instantiated => wasm' = [wasm EXCEPT !.calls = wasm'.calls]

\* C22: the panic hook is installed exactly once: start() runs at module
\* instantiation, before any other call, and however many times start() is
\* run afterwards the hook stays installed once and nothing else changes.
C22_HookOnce == [](C22_InstalledOnce) /\ [][C22_LaterStartIsNoOp]_vars

\* start() has run three times, a Chart call was made, one hook installed
C22_Witness ==
  wasm.calls = 3 /\ wasm.installs = 1 /\ cres.op = "set_width"

\* C23: when the engine rejects the range of an autofilter call (a row or
\* column past the limits, or a reversed range), autofilter returns that
\* error to the caller and the Document mutex is free afterwards.
C23_AutofilterReturnsError ==
  (res.op = "autofilter" /\ res.eng # "") =>
    /\ res.status = "err"
    /\ res.err = res.eng
    /\ mutex[res.recv.workbook] = "unlocked"

\* C24: two concurrent callers never block each other for ever: while a
\* call is in progress (a.combine(b) next to b.combine(a), push_series or
\* insert_chart next to a mutator of the same chart) some caller can take
\* its next step, so every call completes.
C24_DeadlockFree ==
  (\E t \in Callers : threads[t].plan # <<>>) => \E t \in Callers : CanStep(t)

\* no mutex is held by two callers, and a caller about to make the engine
\* call of a Chart mutator holds the mutex of that chart
C25_UnderLock ==
  /\ \A t, u \in Callers : t # u => threads[t].held \cap threads[u].held = {}
  /\ \A t \in Callers :
       (threads[t].plan # <<>> /\ Head(threads[t].plan).k = "engine")
         => <<"chart", threads[t].call.a>> \in threads[t].held

\* exactly two calls were issued, one by each caller, and both returned:
\* set_name and set_width on the same chart; both values are in the chart
C25_BothPresent ==
  \A t, u \in Callers :
    (/\ t # u /\ left = MaxRaceOps - 2
     /\ threads[t].n = 1 /\ threads[t].plan = <<>> /\ threads[t].last.op = "set_name"
     /\ threads[u].n = 1 /\ threads[u].plan = <<>> /\ threads[u].last.op = "set_width"
     /\ threads[t].last.a = threads[u].last.a) =>
      /\ charts[threads[t].last.a].name = threads[t].last.arg
      /\ charts[threads[t].last.a].width = threads[u].last.arg

\* C25: one mutator call on a chart is atomic under concurrent callers.
\* The engine call is made under the chart's mutex, which only one caller
\* holds, and after set_name and set_width issued concurrently through
\* handles of the same chart both values are present.
C25_SingleCallAtomic == C25_UnderLock /\ C25_BothPresent

\* no atomicity over a sequence of calls: caller 1 set the name through one
\* handle and has entered set_width, its second call; in between caller 2
\* set another name through the other handle, which is the name of the chart
C25_Witness ==
  /\ threads[1].last.op = "set_name" /\ threads[1].last.arg = "sales"
  /\ threads[1].call.op = "set_width" /\ threads[1].plan # <<>>
  /\ threads[2].last.op = "set_name" /\ threads[2].last.arg = "costs"
  /\ threads[2].plan = <<>>
  /\ threads[1].last.a = threads[2].last.a /\ threads[1].last.b # threads[2].last.b
  /\ charts[threads[1].last.a].name = "costs"

\* this step is a call on a rule object
RuleStep == Issued /\ cfres'.at = left

\* the wrapped value after the step is x, and the object is otherwise as it was
Stores(x) == cformats' = [cformats EXCEPT ![cfres'.slot].inner = x]

\* C26: every rule mutator takes the wrapped value, applies the engine
\* transformation to it and stores the result: the step changes the wrapped
\* value of its rule to the transformation of the value it had, so earlier
\* settings survive later mutators and a repeated mutator keeps the last value.
C26_TakeTransformStore ==
  [][RuleStep =>
      LET cur == cformats[cfres'.slot].inner IN
      CASE cfres'.op = "set_minimum" ->
             \E t \in BoundTypes, v \in BoundValues : Stores(xlsx_DataBar_set_minimum(cur, t, v))
        [] cfres'.op = "set_maximum" ->
             \E t \in BoundTypes, v \in BoundValues : Stores(xlsx_DataBar_set_maximum(cur, t, v))
        [] cfres'.op = "set_fill_color" ->
             \E c \in Colors : Stores([cur EXCEPT !.fill_color = c])
        [] cfres'.op = "set_border_color" ->
             \E c \in Colors : Stores([cur EXCEPT !.border_color = c])
        [] cfres'.op = "set_rule" ->
             \E f \in FormulaRules : Stores([cur EXCEPT !.rule = f])
        [] OTHER -> TRUE]_vars

\* after five calls on a rule, the last of them set_maximum(Number, 100), the
\* rule still has the minimum and the fill colour set by the earlier calls
C26_Witness ==
  /\ cfres.op = "set_maximum"
  /\ cformats[cfres.slot].inner.min = <<"Number", 0>>
  /\ cformats[cfres.slot].inner.max = <<"Number", 100>>
  /\ cformats[cfres.slot].inner.fill_color = "FF0000"
  /\ left = MaxRuleOps - 5

\* the state is the one the call recorded in res returned into
JustCalled == res.at = left + 1

\* an object was attached: the sheet holds its value as it was at the call,
\* and the host's handle still holds that value
C27_AttachedIsCopy ==
  (JustCalled /\ res.status = "ok" /\ res.args # <<>> /\ res.args[3] # 0) =>
    LET now == docs[res.recv.workbook].sheets[res.recv.index + 1] IN
    /\ res.op = "addConditionalFormat" =>
         [range |-> res.args[1], rule |-> res.args[2].inner] \in now.cfs
    /\ res.op = "writeUrlWithOptions" => now.cells[res.args[1]].f = res.args[2].inner
    /\ cformats[res.args[3]].class = res.args[2].class
    /\ cformats[res.args[3]].inner = res.args[2].inner

\* C27: attaching establishes no shared ownership.  add_conditional_format
\* stores a copy of the rule as it is at the call and leaves the rule handle
\* as it was, a later setter on the rule does not change the Document, and
\* the same holds for a Format passed to write_url_with_options.
C27_AttachCopies == [](C27_AttachedIsCopy) /\ [][RuleStep => docs' = docs]_vars

\* the Chart operations that return a Chart handle, and those that return a
\* component handle
ChartReturning == {"push_series", "set_name", "set_alt_text", "set_width", "set_height", "combine"}
ComponentReturning == {"title", "legend", "x_axis", "y_axis", "x2_axis", "y2_axis"}

\* the axis selector each axis operation is to carry
AxisOf(op) ==
  CASE op = "x_axis" -> "X" [] op = "y_axis" -> "Y"
    [] op = "x2_axis" -> "X2" [] op = "y2_axis" -> "Y2" [] OTHER -> ""

\* the handle a Chart operation returned denotes the chart of its receiver
C28_SameChart ==
  (cres.op \in ChartReturning \cup ComponentReturning /\ cres.status = "ok") =>
    /\ cres.ret.inner = chandles[cres.via].inner
    /\ charts[cres.ret.inner].live
    /\ cres.op \in ComponentReturning => cres.ret.axis = AxisOf(cres.op)

\* no operation of a Chart handle makes a chart value
C28_NoSecondValue ==
  (ChartStep /\ cres'.op # "new") =>
    {c \in ChartIds : charts'[c].live} = {c \in ChartIds : charts[c].live}

\* C28: every handle obtained from a Chart (from push_series, set_name,
\* set_alt_text, set_width, set_height, combine, title, legend and the four
\* axis operations) denotes the chart value and mutex of the receiver, no
\* Chart operation creates a second chart value, and the four axis handles
\* carry the four distinct selectors X, Y, X2, Y2.
C28_HandlesAlias == [](C28_SameChart) /\ [][C28_NoSecondValue]_vars

\* the y2 axis handle of a chart, obtained through a handle that set_height
\* returned, denotes the chart whose height was set
C28_Witness ==
  /\ cres.op = "y2_axis" /\ cres.ret.axis = "Y2" /\ cres.via > 1
  /\ charts[cres.ret.inner].height = 300

\* the sub-objects a Worksheet operation takes a guard of
SubObjects == {"format", "border_format", "date", "chart", "url", "formula"}

\* the guard of sub-object x is held at event i of trace t
SubHeldAt(t, x, i) ==
  \E j \in 1..(i - 1) : t[j] = "lock_" \o x /\ \A m \in j..i : t[m] # "unlock_" \o x

\* C29: a Worksheet operation takes the Document lock first and takes the
\* sub-object locks only while it holds the Document lock; it never takes the
\* Document lock while it holds a sub-object lock, and never takes the
\* Document lock twice.
C29_DocumentLockFirst ==
  LET t == res.trace IN
  /\ \A i \in 1..Len(t) : \A x \in SubObjects :
       t[i] \in {"lock_" \o x, "unlock_" \o x} => HeldAt(t, i)
  /\ \A i \in 1..Len(t) : t[i] \in {"lock", "unlock"} =>
       \A x \in SubObjects : ~SubHeldAt(t, x, i)
  /\ Cardinality({i \in 1..Len(t) : t[i] = "lock"}) <= 1
  /\ t # <<>> => t[1] \in {"lock", "lock_failed"}

\* a border was put around a range, with the guards of both Format objects
\* taken under the Document guard
C29_Witness ==
  /\ res.op = "set_range_format_with_border" /\ res.status = "ok"
  /\ \E i \in 1..Len(res.trace) : res.trace[i] = "lock_border_format"
  /\ <<0, 0>> \in DOMAIN docs[res.recv.workbook].sheets[res.recv.index + 1].cells
  /\ docs[res.recv.workbook].sheets[res.recv.index + 1].cells[<<0, 0>>].f = "bold+thin"

\* C30: writeDynamicFormula has the same result and the same effect on the
\* Document as writeDynamicArrayFormula, and writeDynamicFormulaWithFormat the
\* same as writeDynamicArrayFormulaWithFormat, for every handle, range and
\* formula (and format), where the call succeeds and where it fails.
C30_DynamicFormulaSame ==
  \A k \in Handles, r \in Ranges, fm \in DynamicFormulas :
    /\ write_dyncmic_formula(handles[k], r[1], r[2], r[3], r[4], fm)
         = write_dynamic_array_formula(handles[k], r[1], r[2], r[3], r[4], fm)
    /\ \A f \in Formats :
         write_dynamic_formula_with_format(handles[k], r[1], r[2], r[3], r[4], fm, f)
           = write_dynamic_array_formula_with_format(handles[k], r[1], r[2], r[3], r[4], fm, f)

\* writeDynamicFormula over a range of four cells stored the formula in the
\* first cell and a zero in the last, as the last call of the behaviour
C30_Witness ==
  /\ res.op = "write_dyncmic_formula" /\ res.status = "ok" /\ left = 0
  /\ LET cells == docs[res.recv.workbook].sheets[res.recv.index + 1].cells IN
     /\ <<0, 0>> \in DOMAIN cells /\ cells[<<0, 0>>].t = "DynamicArrayFormula"
     /\ <<1, 1>> \in DOMAIN cells /\ cells[<<1, 1>>].t = "Number"

====
